---------------------------- MODULE Spec2Model ----------------------------
(***************************************************************************)
(* hsync: the availability-polling server (src/server.js) and the event    *)
(* page of its client (src/public/main.js).                                *)
(*                                                                         *)
(* The state is the in-memory event store and what the event page holds    *)
(* and shows; there is one action per HTTP handler and per handler of the  *)
(* page.  Node runs every handler of server.js to completion on one        *)
(* thread (none of the three event handlers awaits), so a handler is one   *)
(* atomic step.  main.js holds the page twice, lines 1-1897 and 1899-3521, *)
(* which differ in notation only; the line numbers given are those of the  *)
(* first copy.                                                             *)
(*                                                                         *)
(* Representation of JavaScript values                                     *)
(*   string      a sequence of one-character strings, <<"9",":","0","0">>  *)
(*   number      [k |-> "int", v |-> n]     the integer n                  *)
(*               [k |-> "frac", v |-> n]    the non-integer n + 1/2        *)
(*               [k |-> "nan", v |-> 0]     NaN                            *)
(*   JSON value  a record tagged by t: "undefined" (the field is absent),  *)
(*               "null", "bool", "num", "frac", "str", "date", "array"     *)
(***************************************************************************)
EXTENDS Integers, Sequences, FiniteSets, TLC

VARIABLES
    events,     \* server.js:27   the event store, id -> event
    req,        \* the request the last handler run received
    resp,       \* the response the last handler run sent
    saved,      \* history: id -> the trimmed, lower-cased names saved with success
    eventData,  \* main.js:906   the event the page has loaded
    bestSlots,  \* main.js:895   the items of the list of best times
    cellsByIndex, \* main.js:907 slot index -> the cell of the grid
    mySlots,    \* main.js:908   the slot indices the participant has selected
    localStorage, \* the item hsync:<eventId>:mySlots of the browser's store
    rangeFields, \* the fields rangeDay, rangeFrom and rangeTo of the page
    calendarBusy, \* main.js:909 the slot indices the overlay found busy
    calendarEventsBySlot, \* main.js:911 slot index -> the calendar events there
    overlayStatus, \* main.js:901 the text of the status line of the overlay
    calendarReply, \* what Google answered to the last request of the overlay
    ran         \* history: the handler of the page that ran last

VARIABLES
    calendarTokenClient, \* main.js:271 the token client, as the call that made it
    sessionStorage, \* the item hsync:calToken of the browser's session store
    promises,   \* the promises getCalendarAccessToken has returned, in order
    requests,   \* the calls of requestAccessToken that Google has yet to answer
    session,    \* the cookie hsync_session: what req.session holds for this browser
    themes, \* server.js:238 googleId -> the appearance saved
    isDown, \* main.js:1013 a pointer is pressed
    dragMode, \* main.js:1014 "add", "remove" or "null"
    calls, \* the saves and loads of the event whose requests are on their way
    loads \* the loads of the overlay that wait for an answer

\* the event store with the last request and its response
serverVars == <<events, req, resp, saved>>

\* what the page holds of its event, its selection and the overlay
shownVars == <<eventData, bestSlots, cellsByIndex, mySlots, localStorage, rangeFields,
               calendarBusy, calendarEventsBySlot, overlayStatus, calendarReply>>

\* the calendar access token and the calls for it
tokenVars == <<calendarTokenClient, sessionStorage, promises, requests>>

\* the signed-in user and the appearances saved
accountVars == <<session, themes>>

\* the state of a drag over the grid
dragVars == <<isDown, dragMode>>

\* the requests of the page that have no answer yet
asyncVars == <<calls, loads>>

\* what the model holds beside the event, the selection and the overlay
auxVars == <<tokenVars, accountVars, dragVars, asyncVars>>

pageVars == <<eventData, bestSlots, cellsByIndex, mySlots, localStorage, rangeFields,
              calendarBusy, calendarEventsBySlot, overlayStatus, calendarReply, ran,
              auxVars>>

vars == <<events, req, resp, saved, eventData, bestSlots, cellsByIndex, mySlots,
          localStorage, rangeFields, calendarBusy, calendarEventsBySlot,
          overlayStatus, calendarReply, ran, auxVars>>

-----------------------------------------------------------------------------
(* Bounds of the model *)

MaxEvents == 1      \* generateId draws from 1..MaxEvents
MaxDay == 2         \* calendar days a request can name: 1..MaxDay
MaxListLen == 2     \* length of the slots array of a save request
MaxCalls == 4       \* calls of getCalendarAccessToken in one page

Ids == 1..MaxEvents

-----------------------------------------------------------------------------
(* JavaScript numbers *)

NaN == [k |-> "nan", v |-> 0]
IntNum(n) == [k |-> "int", v |-> n]
FracNum(n) == [k |-> "frac", v |-> n]

\* Number.isInteger
IsInteger(x) == x.k = "int"

\* a + b, a - b, a * b on numbers that are integers or NaN
NumAdd(a, b) == IF a.k = "int" /\ b.k = "int" THEN IntNum(a.v + b.v) ELSE NaN
NumSub(a, b) == IF a.k = "int" /\ b.k = "int" THEN IntNum(a.v - b.v) ELSE NaN
NumMul(a, b) == IF a.k = "int" /\ b.k = "int" THEN IntNum(a.v * b.v) ELSE NaN

\* Math.floor(a / b) for a positive integer b
FloorDiv(a, b) == IF a.k = "int" THEN IntNum(a.v \div b) ELSE NaN

\* a <= b, a < b: every comparison with NaN is false
NumLe(a, b) == a.k = "int" /\ b.k = "int" /\ a.v <= b.v
NumLt(a, b) == a.k = "int" /\ b.k = "int" /\ a.v < b.v

-----------------------------------------------------------------------------
(* JavaScript strings *)

IsWhite(c) == c = " "

RECURSIVE TrimStart(_)
TrimStart(s) == IF s # <<>> /\ IsWhite(Head(s)) THEN TrimStart(Tail(s)) ELSE s

RECURSIVE TrimEnd(_)
TrimEnd(s) ==
    IF s # <<>> /\ IsWhite(s[Len(s)]) THEN TrimEnd(SubSeq(s, 1, Len(s) - 1)) ELSE s

TrimKept(s) == s

\* String.prototype.trim
Trim(s) == TrimEnd(TrimStart(s))

LowerChar(c) ==
    CASE c = "A" -> "a"
      [] c = "B" -> "b"
      [] c = "T" -> "t"
      [] OTHER -> c

\* String.prototype.toLowerCase
ToLowerCase(s) == [i \in 1..Len(s) |-> LowerChar(s[i])]

Digits == {"0", "1", "2", "3", "4", "5", "6", "7", "8", "9"}

DigitVal(c) ==
    CASE c = "0" -> 0 [] c = "1" -> 1 [] c = "2" -> 2 [] c = "3" -> 3
      [] c = "4" -> 4 [] c = "5" -> 5 [] c = "6" -> 6 [] c = "7" -> 7
      [] c = "8" -> 8 [] c = "9" -> 9

RECURSIVE DecimalValue(_)
DecimalValue(s) ==
    IF s = <<>> THEN 0
    ELSE 10 * DecimalValue(SubSeq(s, 1, Len(s) - 1)) + DigitVal(s[Len(s)])

IsDigits(s) == s # <<>> /\ \A i \in 1..Len(s) : s[i] \in Digits

\* Number(string): blanks are trimmed, the empty string is 0, an optionally
\* signed run of decimal digits is that integer, anything else is NaN.
\* (The strings of the model contain no ".", exponent or radix prefix.)
StringToNumber(s) ==
    LET t == Trim(s) IN
    IF t = <<>> THEN IntNum(0)
    ELSE IF IsDigits(t) THEN IntNum(DecimalValue(t))
    ELSE IF Head(t) = "-" /\ IsDigits(Tail(t)) THEN IntNum(0 - DecimalValue(Tail(t)))
    ELSE IF Head(t) = "+" /\ IsDigits(Tail(t)) THEN IntNum(DecimalValue(Tail(t)))
    ELSE NaN

\* String.prototype.split(sep) for a one-character separator
RECURSIVE Split(_, _)
Split(s, sep) ==
    IF \A i \in 1..Len(s) : s[i] # sep THEN <<s>>
    ELSE LET i == CHOOSE j \in 1..Len(s) :
                      s[j] = sep /\ \A l \in 1..(j - 1) : s[l] # sep
         IN <<SubSeq(s, 1, i - 1)>> \o Split(SubSeq(s, i + 1, Len(s)), sep)

-----------------------------------------------------------------------------
(* JSON values of a request body *)

Undef == [t |-> "undefined"]
Null == [t |-> "null"]
Bool(b) == [t |-> "bool", b |-> b]
Num(n) == [t |-> "num", n |-> n]
Frac(n) == [t |-> "frac", n |-> n]
Str(s) == [t |-> "str", s |-> s]
Arr(a) == [t |-> "array", a |-> a]
\* the string "YYYY-MM-DD" that names calendar day d
DateStr(d) == [t |-> "date", d |-> d]

\* !x is false (x is "truthy")
Truthy(x) ==
    CASE x.t = "undefined" -> FALSE
      [] x.t = "null" -> FALSE
      [] x.t = "bool" -> x.b
      [] x.t = "num" -> x.n # 0
      [] x.t = "str" -> x.s # <<>>
      [] OTHER -> TRUE

\* Number(x)
Number(x) ==
    CASE x.t = "undefined" -> NaN
      [] x.t = "null" -> IntNum(0)
      [] x.t = "bool" -> IntNum(IF x.b THEN 1 ELSE 0)
      [] x.t = "num" -> IntNum(x.n)
      [] x.t = "frac" -> FracNum(x.n)
      [] x.t = "str" -> StringToNumber(x.s)
      [] OTHER -> NaN

\* new Date(x).getTime() in days: a date string is its day, other text is NaN
DateValue(x) == IF x.t = "date" THEN IntNum(x.d) ELSE NaN

-----------------------------------------------------------------------------
(* The event store *)

\* server.js:133-141  the object a create-event request stores.  dates holds
\* day numbers (the "YYYY-MM-DD" strings), participants the own properties of
\* the participants object in property order: [key, name, slots].
NewEvent(id, title, dates, slotMins, startTimeMinutes, endTimeMinutes) ==
    [id |-> id,
     title |-> title,
     dates |-> dates,
     slotMinutes |-> slotMins,
     startTimeMinutes |-> startTimeMinutes,
     endTimeMinutes |-> endTimeMinutes,
     participants |-> <<>>]

\* The ids of requests (req.params.id). The store is a plain object
\* (server.js:27), so events[id] finds, besides the events stored under the
\* ids of generateId, what every object inherits: events["constructor"] is
\* the function Object, which is truthy and has no dates, so that reading
\* event.dates.length (server.js:52, 201) throws a TypeError.
\* UnknownId stands for an id of eight hexadecimal digits that no event was
\* stored under, ConstructorId for the id "constructor".
UnknownId == 0
ConstructorId == 0 - 1
InheritedIds == {ConstructorId}
RequestIds == Ids \cup {UnknownId, ConstructorId}

\* server.js:33-37
parseTimeToMinutes(t) ==
    LET parts == Split(t, ":")
        h == StringToNumber(parts[1])
        m == IF Len(parts) >= 2 THEN StringToNumber(parts[2]) ELSE NaN
    IN NumAdd(NumMul(h, IntNum(60)), m)

\* server.js:50-51, 199-200  Math.floor(totalMinutes / event.slotMinutes)
slotsPerDayOf(event) ==
    FloorDiv(NumSub(event.endTimeMinutes, event.startTimeMinutes), event.slotMinutes)

\* Array.from({ length: n }): NaN and negative lengths give the empty array
ArrayLength(n) == IF n.k = "int" /\ n.v > 0 THEN n.v ELSE 0

\* The clocks of the server's zone, as far as the loop over the dates sees
\* them: from noon (UTC) of day `at` on, local time is `by` hours further
\* ahead of UTC than before (1 when summer time begins, -1 when it ends).
Zones == {[at |-> a, by |-> s] : a \in 1..(MaxDay - 1), s \in {0 - 1, 0, 1}}

\* a zone whose clocks are never changed, as UTC
NoClockChange == [at |-> 1, by |-> 0]

Offset(zone, hours) == IF hours >= 24 * zone.at + 12 THEN zone.by ELSE 0

\* server.js:114  current.setDate(current.getDate() + 1): the same local time
\* of the next local day, as an instant in hours
setDate(zone, current) ==
    current + 24 - (Offset(zone, current + 24) - Offset(zone, current))

\* server.js:112-115  while (current <= end): the day of the UTC date of each
\* instant (toISOString().slice(0, 10)); current and end are in hours
RECURSIVE DateLoop(_, _, _)
DateLoop(zone, current, end) ==
    IF current <= end
    THEN <<current \div 24>> \o DateLoop(zone, setDate(zone, current), end)
    ELSE <<>>

\* server.js:93-100  !title || !startDate || ... || !slotMinutes
MissingField(body) ==
    \/ ~Truthy(body.title)
    \/ ~Truthy(body.startDate)
    \/ ~Truthy(body.endDate)
    \/ ~Truthy(body.startTime)
    \/ ~Truthy(body.endTime)
    \/ ~Truthy(body.slotMinutes)

\* server.js:108  isNaN(current.getTime()) || isNaN(end.getTime()) || current > end
InvalidDateRange(current, end) ==
    \/ current.k = "nan"
    \/ end.k = "nan"
    \/ NumLt(end, current)

\* server.js:122  !Number.isInteger(slotMins) || slotMins <= 0
InvalidSlotLength(slotMins) == ~IsInteger(slotMins) \/ NumLe(slotMins, IntNum(0))

\* server.js:127  slotsPerDay <= 0
InvalidTimeRange(slotsPerDay) == NumLe(slotsPerDay, IntNum(0))

Error(status, message) == [status |-> status, error |-> message]

\* server.js:89-145  POST /api/events on a server in zone; id is what
\* generateId returns.
\* A call of a string method on a value that is no string throws, and
\* Express answers 500.
PostEventIn(zone, evs, body, id) ==
    IF MissingField(body)
    THEN [events |-> evs, res |-> Error(400, "Missing required fields.")]
    ELSE
    LET current == DateValue(body.startDate)
        end == DateValue(body.endDate)
    IN
    IF InvalidDateRange(current, end)
    THEN [events |-> evs, res |-> Error(400, "Invalid date range.")]
    ELSE IF body.startTime.t # "str" \/ body.endTime.t # "str"
    THEN [events |-> evs, res |-> Error(500, "TypeError")]
    ELSE
    LET dates == DateLoop(zone, current.v * 24, end.v * 24)
        startTimeMinutes == parseTimeToMinutes(body.startTime.s)
        endTimeMinutes == parseTimeToMinutes(body.endTime.s)
        span == NumSub(endTimeMinutes, startTimeMinutes)
        slotMins == Number(body.slotMinutes)
    IN
    IF InvalidSlotLength(slotMins)
    THEN [events |-> evs, res |-> Error(400, "Invalid slot length.")]
    ELSE IF InvalidTimeRange(FloorDiv(span, slotMins.v))
    THEN [events |-> evs, res |-> Error(400, "Invalid time range.")]
    ELSE IF body.title.t # "str"
    THEN [events |-> evs, res |-> Error(500, "TypeError")]
    ELSE
    LET event == NewEvent(id, Trim(body.title.s), dates, slotMins.v,
                          startTimeMinutes, endTimeMinutes)
    IN [events |-> [i \in DOMAIN evs \cup {id} |-> IF i = id THEN event ELSE evs[i]],
        res |-> [status |-> 200, id |-> id]]

\* server.js:89-145 on a server whose clocks are never changed
PostEvent(evs, body, id) == PostEventIn(NoClockChange, evs, body, id)

-----------------------------------------------------------------------------
(* Aggregation *)

\* a % b of JavaScript for b > 0: the sign is the dividend's
JsRem(a, b) == IF a >= 0 THEN a % b ELSE 0 - ((0 - a) % b)

\* the elements of a Set of numbers as the for-of loop visits them.  (A Set
\* iterates in insertion order; the model visits ascending, which gives the
\* same grids: one participant's slots are distinct and each touches its own
\* cell.)
RECURSIVE SetToSeq(_)
SetToSeq(S) ==
    IF S = {} THEN <<>>
    ELSE LET x == CHOOSE y \in S : \A z \in S : y.v <= z.v
         IN <<x>> \o SetToSeq(S \ {x})

\* server.js:55-64  the grids and the maximum before the loops
EmptyAggregate(slotsPerDay, days) ==
    [aggregate |-> [r \in 0..(ArrayLength(slotsPerDay) - 1) |-> [d \in 0..(days - 1) |-> 0]],
     who |-> [r \in 0..(ArrayLength(slotsPerDay) - 1) |-> [d \in 0..(days - 1) |-> <<>>]],
     maxCount |-> 0,
     slotsPerDay |-> slotsPerDay,
     threw |-> FALSE]

\* a decoding with row and column exchanged
RowOfExchanged(idx, slotsPerDay) ==
    IF slotsPerDay.k = "int" /\ slotsPerDay.v > 0
    THEN IntNum(idx \div slotsPerDay.v) ELSE NaN

\* server.js:71  idx % slotsPerDay
RowOf(idx, slotsPerDay) ==
    IF slotsPerDay.k = "int" /\ slotsPerDay.v > 0
    THEN IntNum(JsRem(idx, slotsPerDay.v)) ELSE NaN

\* server.js:72  Math.floor(idx / slotsPerDay)
ColOf(idx, slotsPerDay) ==
    IF slotsPerDay.k = "int" /\ slotsPerDay.v > 0
    THEN IntNum(idx \div slotsPerDay.v) ELSE NaN

\* server.js:74  row < 0 || row >= slotsPerDay || col < 0 || col >= days
OutsideGrid(row, col, slotsPerDay, days) ==
    \/ NumLt(row, IntNum(0))
    \/ NumLe(slotsPerDay, row)
    \/ NumLt(col, IntNum(0))
    \/ NumLe(IntNum(days), col)

\* a list that never takes a name
PushDropped(names, name) == names

\* server.js:77  who[row][col].push(p.name)
Push(names, name) == Append(names, name)

\* a maximum that stays at the first count
MaxCountOfFirst(maxCount, n) == IF maxCount = 0 THEN n ELSE maxCount

\* server.js:79-81  if (aggregate[row][col] > maxCount) maxCount = ...
MaxCountOf(maxCount, n) == IF n > maxCount THEN n ELSE maxCount

\* server.js:68-81  the body of the inner loop for one slot of participant p.
\* Indexing a grid with NaN reads undefined, and the increment throws.
CountSlot(acc, name, slotIndex, days) ==
    LET idx == slotIndex
        row == RowOf(idx.v, acc.slotsPerDay)
        col == ColOf(idx.v, acc.slotsPerDay)
    IN
    IF acc.threw \/ ~IsInteger(idx) THEN acc
    ELSE IF OutsideGrid(row, col, acc.slotsPerDay, days) THEN acc
    ELSE IF row.k # "int" \/ col.k # "int" THEN [acc EXCEPT !.threw = TRUE]
    ELSE
    LET n == acc.aggregate[row.v][col.v] + 1 IN
    [acc EXCEPT !.aggregate[row.v][col.v] = n,
                !.who[row.v][col.v] = Push(@, name),
                !.maxCount = MaxCountOf(@, n)]

\* a loop that has seen the first slot of the set only
CountSlotsBegun(acc, name, slotSeq, days) ==
    IF slotSeq = <<>> THEN acc ELSE CountSlot(acc, name, Head(slotSeq), days)

\* server.js:67-82  the inner loop over p.slots
RECURSIVE CountSlots(_, _, _, _)
CountSlots(acc, name, slotSeq, days) ==
    IF slotSeq = <<>> THEN acc
    ELSE CountSlots(CountSlot(acc, name, Head(slotSeq), days), name, Tail(slotSeq), days)

\* server.js:66-83  the outer loop over Object.values(event.participants)
RECURSIVE CountParticipants(_, _, _)
CountParticipants(acc, participants, days) ==
    IF participants = <<>> THEN acc
    ELSE CountParticipants(
            CountSlots(acc, Head(participants).name, SetToSeq(Head(participants).slots), days),
            Tail(participants), days)

\* server.js:49-86
computeAggregate(event) ==
    CountParticipants(EmptyAggregate(slotsPerDayOf(event), Len(event.dates)),
                      event.participants, Len(event.dates))

\* server.js:39-47  the label "h:mm AM" as its parts
formatTime(minutes) ==
    LET h == minutes \div 60
        h12 == JsRem(h, 12)
    IN [h |-> IF h12 = 0 THEN 12 ELSE h12,
        mm |-> JsRem(minutes, 60),
        ampm |-> IF h >= 12 THEN "PM" ELSE "AM"]

\* server.js:148-180  GET /api/events/:id; the response is the object handed
\* to res.json
GetEventResponse(evs, id) ==
    IF id \notin DOMAIN evs /\ id \notin InheritedIds
    THEN Error(404, "Event not found.")
    ELSE IF id \notin DOMAIN evs THEN Error(500, "TypeError")
    ELSE
    LET event == evs[id]
        grid == computeAggregate(event)
    IN
    IF grid.threw THEN Error(500, "TypeError")
    ELSE
    [status |-> 200,
     id |-> event.id,
     title |-> event.title,
     dates |-> event.dates,
     times |-> [i \in 0..(ArrayLength(grid.slotsPerDay) - 1) |->
                   formatTime(event.startTimeMinutes.v + i * event.slotMinutes)],
     slotMinutes |-> event.slotMinutes,
     startTimeMinutes |-> event.startTimeMinutes,
     endTimeMinutes |-> event.endTimeMinutes,
     grid |-> [aggregate |-> grid.aggregate,
               who |-> grid.who,
               maxCount |-> grid.maxCount,
               slotsPerDay |-> grid.slotsPerDay],
     participants |-> [i \in 1..Len(event.participants) |-> event.participants[i].name]]

-----------------------------------------------------------------------------
(* Saving availability *)

\* a filter without the upper limit
KeepSlotUnlimited(idx, maxIndex) == IsInteger(idx) /\ NumLe(IntNum(0), idx)

\* a filter that stops one index early
KeepSlotShort(idx, maxIndex) ==
    IsInteger(idx) /\ NumLe(IntNum(0), idx) /\ NumLt(idx, maxIndex)

\* server.js:207  Number.isInteger(idx) && idx >= 0 && idx <= maxIndex
KeepSlot(idx, maxIndex) ==
    IsInteger(idx) /\ NumLe(IntNum(0), idx) /\ NumLe(idx, maxIndex)

\* server.js:204-210  the Set of numbers the loop over slots builds
ClampSlots(slots, maxIndex) ==
    {Number(slots[i]) : i \in {j \in 1..Len(slots) : KeepSlot(Number(slots[j]), maxIndex)}}

\* a key that keeps the letter case
participantKeyCased(cleanedName) == cleanedName

\* server.js:212  key = cleanedName.toLowerCase()
participantKey(cleanedName) == ToLowerCase(cleanedName)

\* a save that merges the new slots into the entry it finds
PutParticipantMerged(participants, key, entry) ==
    IF \E i \in 1..Len(participants) : participants[i].key = key
    THEN [i \in 1..Len(participants) |->
            IF participants[i].key = key
            THEN [entry EXCEPT !.slots = @ \cup participants[i].slots]
            ELSE participants[i]]
    ELSE Append(participants, entry)

\* a save that writes the participant map anew, with its own entry alone
PutParticipantAlone(participants, key, entry) == <<entry>>

\* a save that pushes every entry onto a list
PutParticipantPushed(participants, key, entry) == Append(participants, entry)

\* server.js:213-216  event.participants[key] = {...}: an existing property
\* keeps its place, a new one comes last.  (The names of the model are made of
\* letters and blanks: no key is an array index, which Object.values would
\* list first, nor "__proto__", which an assignment does not store.)
PutParticipant(participants, key, entry) ==
    IF \E i \in 1..Len(participants) : participants[i].key = key
    THEN [i \in 1..Len(participants) |->
            IF participants[i].key = key THEN entry ELSE participants[i]]
    ELSE Append(participants, entry)

\* server.js:183-220  POST /api/events/:id/availability
PostAvailability(evs, id, body) ==
    IF id \notin DOMAIN evs /\ id \notin InheritedIds
    THEN [events |-> evs, res |-> Error(404, "Event not found.")]
    ELSE IF ~Truthy(body.participantName) \/ body.slots.t # "array"
    THEN [events |-> evs, res |-> Error(400, "Invalid payload.")]
    ELSE IF body.participantName.t # "str"
    THEN [events |-> evs, res |-> Error(500, "TypeError")]
    ELSE
    LET event == evs[id]
        cleanedName == Trim(body.participantName.s)
    IN
    IF cleanedName = <<>>
    THEN [events |-> evs, res |-> Error(400, "Name is required.")]
    ELSE IF id \notin DOMAIN evs
    THEN [events |-> evs, res |-> Error(500, "TypeError")]
    ELSE
    LET slotsPerDay == slotsPerDayOf(event)
        days == Len(event.dates)
        maxIndex == NumSub(NumMul(slotsPerDay, IntNum(days)), IntNum(1))
        clampedSlots == ClampSlots(body.slots.a, maxIndex)
        key == participantKey(cleanedName)
        entry == [key |-> key, name |-> cleanedName, slots |-> clampedSlots]
    IN [events |-> [evs EXCEPT ![id].participants = PutParticipant(@, key, entry)],
        res |-> [status |-> 200, ok |-> TRUE]]

-----------------------------------------------------------------------------
(* The handlers as actions *)

\* main.js:908  new Set(JSON.parse(safeGet(mySlotsKey) || "[]").map(Number));
\* an item that was never set reads null
ParseSlots(item) ==
    IF item.t = "null" THEN {} ELSE {Number(item.a[i]).v : i \in 1..Len(item.a)}

\* main.js:878-911  initEventPage: the state of a page that has just been
\* opened in a browser whose store holds item
PageOpened(item) ==
    /\ eventData = Null
    /\ bestSlots = <<>>
    /\ cellsByIndex = <<>>
    /\ localStorage = item
    /\ mySlots = ParseSlots(item)
    /\ rangeFields = [day |-> 0, from |-> <<>>, to |-> <<>>]
    /\ calendarBusy = {}
    /\ calendarEventsBySlot = <<>>
    /\ overlayStatus = ""
    /\ calendarReply = Null
    /\ ran = "none"
    /\ calendarTokenClient = 0
    /\ sessionStorage = "none"
    /\ promises = <<>>
    /\ requests = 0
    /\ session = [user |-> Undef]
    /\ themes = <<>>
    /\ isDown = FALSE
    /\ dragMode = "null"
    /\ calls = <<>>
    /\ loads = 0

Init ==
    /\ events = <<>>
    /\ req = [op |-> "none"]
    /\ resp = [status |-> 0]
    /\ saved = <<>>
    /\ PageOpened(Null)

\* server.js:89-145 with server.js:29-31: generateId returns four random
\* bytes, which nothing compares with the ids in use
CreateEventIn(zone, body, id) ==
    LET r == PostEventIn(zone, events, body, id) IN
    /\ events' = r.events
    /\ req' = [op |-> "createEvent", body |-> body]
    /\ resp' = r.res
    /\ saved' = IF r.res.status = 200
                THEN [i \in DOMAIN saved \cup {id} |-> IF i = id THEN {} ELSE saved[i]]
                ELSE saved
    /\ UNCHANGED pageVars

\* the same on a server whose clocks are never changed
CreateEvent(body, id) == CreateEventIn(NoClockChange, body, id)

\* a read that empties the participants it has answered with
GetEventDraining(id) ==
    /\ req' = [op |-> "getEvent", id |-> id]
    /\ resp' = GetEventResponse(events, id)
    /\ events' = [i \in DOMAIN events |->
                     IF i = id THEN [events[i] EXCEPT !.participants = <<>>]
                     ELSE events[i]]
    /\ UNCHANGED saved
    /\ UNCHANGED pageVars

\* server.js:148-180
GetEvent(id) ==
    /\ req' = [op |-> "getEvent", id |-> id]
    /\ resp' = GetEventResponse(events, id)
    /\ UNCHANGED <<events, saved>>
    /\ UNCHANGED pageVars

\* server.js:183-220
SaveAvailability(id, body) ==
    LET r == PostAvailability(events, id, body) IN
    /\ events' = r.events
    /\ req' = [op |-> "saveAvailability", id |-> id, body |-> body]
    /\ resp' = r.res
    /\ saved' = IF r.res.status = 200
                THEN [saved EXCEPT ![id] = @ \cup {ToLowerCase(Trim(body.participantName.s))}]
                ELSE saved
    /\ UNCHANGED pageVars

-----------------------------------------------------------------------------
(* Requests *)

T0000 == <<"0", ":", "0", "0">>
T0900 == <<"9", ":", "0", "0">>
T0910 == <<"9", ":", "1", "0">>
T1000 == <<"1", "0", ":", "0", "0">>
T2500 == <<"2", "5", ":", "0", "0">>
T2600 == <<"2", "6", ":", "0", "0">>
TMinus == <<"-", "1", ":", "0", "0">>
THour == <<"9">>

\* "9:00"-"10:00" in slots of 30 minutes over the days 1..MaxDay
BaseBody ==
    [title |-> Str(<<"T">>),
     startDate |-> DateStr(1),
     endDate |-> DateStr(MaxDay),
     startTime |-> Str(T0900),
     endTime |-> Str(T1000),
     slotMinutes |-> Num(30)]

\* a start time without minutes: Number(undefined) is NaN
NaNBody == [BaseBody EXCEPT !.startTime = Str(THour)]

NumList(s) == Arr([i \in 1..Len(s) |-> Num(s[i])])

\* all arrays of at most n values of V
RECURSIVE Lists(_, _)
Lists(V, n) ==
    IF n = 0 THEN {<<>>}
    ELSE Lists(V, n - 1) \cup {Append(l, v) : l \in {m \in Lists(V, n - 1) : Len(m) = n - 1}, v \in V}

(* Spec: MaxEvents events, two participant keys, integer slot lists *)

CreateBodies == {BaseBody, NaNBody, [BaseBody EXCEPT !.title = Undef]}

NameInputs ==
    {Undef, Str(<<>>), Str(<<" ">>), Str(<<"A">>), Str(<<"a", " ">>), Str(<<"B">>)}

SlotLists == {NumList(<<0, 2>>), NumList(<<2, 99>>)}

SaveBodies ==
    [participantName : NameInputs, slots : SlotLists]
        \cup {[participantName |-> Str(<<"A">>), slots |-> Undef]}

Next ==
    \/ \E body \in CreateBodies, id \in Ids : CreateEvent(body, id)
    \/ \E id \in Ids : GetEvent(id)
    \/ \E id \in Ids, body \in SaveBodies : SaveAvailability(id, body)

Spec == Init /\ [][Next]_vars

(* SpecSave: one event of two days of four slots, every kind of slot value *)

QuarterBody == [BaseBody EXCEPT !.startDate = DateStr(1), !.endDate = DateStr(2),
                                !.slotMinutes = Num(15)]

SlotValues ==
    {Num(7), Num(8), Frac(1), Null, Str(<<>>), Bool(TRUE), Str(<<"x">>)}

WideSlotLists ==
    {Arr(l) : l \in Lists(SlotValues, MaxListLen)} \cup {NumList(<<2, 99, -1>>)}

WideSaveBodies ==
    [participantName : {Str(<<"A">>)}, slots : WideSlotLists]
        \cup {[participantName |-> Str(<<" ">>), slots |-> NumList(<<2>>)]}

NextSave ==
    \/ \E body \in {QuarterBody, NaNBody} : CreateEvent(body, 1)
    \/ GetEvent(1)
    \/ \E body \in WideSaveBodies : SaveAvailability(1, body)

SpecSave == Init /\ [][NextSave]_vars

(* SpecCreate: every kind of create-event request on a server in any zone,  *)
(* one save                                                                 *)

DatePairs ==
    {<<Undef, DateStr(1)>>, <<DateStr(1), Undef>>,
     <<Str(<<"x">>), DateStr(1)>>, <<DateStr(1), Str(<<"x">>)>>}
        \cup {<<DateStr(a), DateStr(b)>> : a \in 1..MaxDay, b \in 1..MaxDay}

TimePairs ==
    {<<Undef, Str(T1000)>>, <<Str(T0900), Undef>>,
     <<Str(THour), Str(T1000)>>, <<Str(T0900), Str(THour)>>,
     <<Str(T1000), Str(T0900)>>, <<Str(T0900), Str(T0910)>>,
     <<Str(T2500), Str(T2600)>>, <<Str(TMinus), Str(T0000)>>}

SlotLengths ==
    {Undef, Null, Num(0), Num(-30), Frac(30), Str(<<"x">>), Str(<<"3", "0">>),
     Bool(TRUE), Num(15), Num(60), Num(90)}

WideCreateBodies ==
    {BaseBody, [BaseBody EXCEPT !.title = Undef], [BaseBody EXCEPT !.title = Str(<<>>)]}
        \cup {[BaseBody EXCEPT !.startDate = p[1], !.endDate = p[2]] : p \in DatePairs}
        \cup {[BaseBody EXCEPT !.startTime = p[1], !.endTime = p[2]] : p \in TimePairs}
        \cup {[BaseBody EXCEPT !.slotMinutes = v] : v \in SlotLengths}

OneSaveBody == [participantName |-> Str(<<"A">>), slots |-> NumList(<<0>>)]

NextCreate ==
    \/ \E zone \in Zones, body \in WideCreateBodies, id \in Ids :
          CreateEventIn(zone, body, id)
    \/ \E id \in RequestIds : GetEvent(id)
    \/ \E id \in RequestIds : SaveAvailability(id, OneSaveBody)

SpecCreate == Init /\ [][NextCreate]_vars

-----------------------------------------------------------------------------
(* The event page (src/public/main.js, initEventPage) *)

\* the number of best times the list shows
BestLimit == 5

\* the elements of a Set of indices as an array; the model keeps no order
\* of insertion and gives them in ascending order
RECURSIVE ArrayFrom(_)
ArrayFrom(slots) ==
    IF slots = {} THEN <<>>
    ELSE LET m == CHOOSE x \in slots : \A y \in slots : x <= y
         IN <<m>> \o ArrayFrom(slots \ {m})

\* a write that stores the empty array whatever is selected
StringifyNone(slots) == NumList(<<>>)

\* main.js:1167  JSON.stringify(Array.from(mySlots))
StringifySlots(slots) == NumList(ArrayFrom(slots))

\* the highest class heat-0 .. heat-4 of a cell
HeatMax == 4

\* main.js:1208  const rows = eventData.grid.slotsPerDay; a loop "r < rows"
\* has no turn when rows is no number
RowsOf(data) == ArrayLength(data.grid.slotsPerDay)

\* main.js:1343  (agg[r] && agg[r][d]) || 0
CountAt(aggregate, r, d) ==
    IF r \in DOMAIN aggregate /\ d \in DOMAIN aggregate[r] THEN aggregate[r][d] ELSE 0

\* main.js:1349  (who[r] && who[r][d]) || []
NamesAt(who, r, d) ==
    IF r \in DOMAIN who /\ d \in DOMAIN who[r] THEN who[r][d] ELSE <<>>

\* main.js:1341-1352  the loops over the days and, inside, over the rows,
\* from row r of day d on
RECURSIVE CollectItems(_, _, _, _)
CollectItems(data, d, r, items) ==
    IF d >= Len(data.dates) THEN items
    ELSE IF r >= RowsOf(data) THEN CollectItems(data, d + 1, 0, items)
    ELSE
    LET cnt == CountAt(data.grid.aggregate, r, d) IN
    CollectItems(data, d, r + 1,
        IF cnt <= 0 THEN items
        ELSE Append(items, [day |-> d, row |-> r, count |-> cnt,
                            names |-> NamesAt(data.grid.who, r, d)]))

\* main.js:1361  the comparator (a, b) => b.count - a.count
CompareCount(a, b) == b.count - a.count

\* an insertion that puts an item before the items it ties with
RECURSIVE InsertBeforeTies(_, _)
InsertBeforeTies(sorted, item) ==
    IF sorted = <<>> THEN <<item>>
    ELSE IF CompareCount(Head(sorted), item) < 0
         THEN <<Head(sorted)>> \o InsertBeforeTies(Tail(sorted), item)
         ELSE <<item>> \o sorted

\* Array.prototype.sort is stable: an item goes behind the items that the
\* comparator does not put after it
RECURSIVE Insert(_, _)
Insert(sorted, item) ==
    IF sorted = <<>> THEN <<item>>
    ELSE IF CompareCount(Head(sorted), item) <= 0
         THEN <<Head(sorted)>> \o Insert(Tail(sorted), item)
         ELSE <<item>> \o sorted

\* main.js:1361  items.sort(...)
RECURSIVE Sort(_)
Sort(items) ==
    IF items = <<>> THEN <<>>
    ELSE Insert(Sort(SubSeq(items, 1, Len(items) - 1)), items[Len(items)])

\* a slice that keeps every item
SliceAll(items, end) == items

\* main.js:1371  Array.prototype.slice(0, end)
Slice(items, end) == SubSeq(items, 1, IF Len(items) < end THEN Len(items) ELSE end)

\* a test that never finds the list empty
NoItemsNever(items) == FALSE

\* main.js:1364  items.length === 0
NoItems(items) == Len(items) = 0

\* main.js:1365-1368  the item that stands for an empty ranking
NoAvailabilityItem == [kind |-> "message", text |-> "No availability submitted yet."]

\* main.js:1371-1427  the item of one slot: its day and time, its count and
\* the names of its participants
SlotItem(s) == [kind |-> "slot", day |-> s.day, row |-> s.row,
                count |-> s.count, names |-> s.names]

\* main.js:1321-1434  the list renderBestSlots leaves in the page
renderBestSlots(data) ==
    LET items == Sort(CollectItems(data, 0, 0, <<>>))
        top == Slice(items, BestLimit)
    IN IF NoItems(items) THEN <<NoAvailabilityItem>>
       ELSE [i \in 1..Len(top) |-> SlotItem(top[i])]

\* an index with the day and the row exchanged
SlotIndexExchanged(d, r, rows) == r * rows + d

\* main.js:1267  const idx = d * rows + r
SlotIndex(d, r, rows) == d * rows + r

\* a level that rounds down
HeatLevelFloor(count, maxCount) ==
    IF maxCount = 0 THEN 0 ELSE (count * HeatMax) \div maxCount

\* main.js:1280  maxCount === 0 ? 0 : Math.ceil((count / maxCount) * 4).
\* Both are integers: the quotient is exact when 4 * count / maxCount is an
\* integer, and the double nearest to the quotient of small integers is on
\* the same side of every integer as the quotient itself.
HeatLevel(count, maxCount) ==
    IF maxCount = 0 THEN 0 ELSE (count * HeatMax + maxCount - 1) \div maxCount

\* Map.prototype.set
MapSet(map, key, value) ==
    [k \in DOMAIN map \cup {key} |-> IF k = key THEN value ELSE map[k]]

\* main.js:1253-1296  the loops over the rows and, inside, over the days,
\* from day d of row r on; a cell has its classes heat-<level> and, when
\* the participant has selected its index, my-slot
RECURSIVE RenderCells(_, _, _, _, _)
RenderCells(data, slots, r, d, cells) ==
    IF r >= RowsOf(data) THEN cells
    ELSE IF d >= Len(data.dates) THEN RenderCells(data, slots, r + 1, 0, cells)
    ELSE
    LET idx == SlotIndex(d, r, RowsOf(data))
        count == CountAt(data.grid.aggregate, r, d)
        level == HeatLevel(count, data.grid.maxCount)
    IN RenderCells(data, slots, r, d + 1,
            MapSet(cells, idx, [index |-> idx, row |-> r, day |-> d, level |-> level,
                                mine |-> idx \in slots, busy |-> FALSE]))

\* main.js:1199-1297  the cells renderGrid leaves in the page
renderGrid(data, slots) == RenderCells(data, slots, 0, 0, <<>>)

\* main.js:112-135  fetchJson returns the body of an answer that is ok
BodyOf(res) == [f \in DOMAIN res \ {"status"} |-> res[f]]

\* main.js:1022-1034  loadEvent: the page's GET of its event reaches the
\* server, and the page renders the grid and the best times from the
\* answer; an answer that is not ok is thrown by fetchJson and caught
loadEvent(eventId) ==
    /\ GetEventResponse(events, eventId).status = 200
    /\ req' = [op |-> "getEvent", id |-> eventId]
    /\ resp' = GetEventResponse(events, eventId)
    /\ eventData' = BodyOf(resp')
    /\ cellsByIndex' = renderGrid(eventData', mySlots)
    /\ bestSlots' = renderBestSlots(eventData')
    /\ ran' = "loadEvent"
    /\ UNCHANGED <<events, saved, mySlots, localStorage, rangeFields, calendarBusy,
                   calendarEventsBySlot, overlayStatus, calendarReply>>
    /\ UNCHANGED auxVars

\* main.js:1029-1032  the catch of loadEvent
loadEventFailed(eventId) ==
    /\ GetEventResponse(events, eventId).status # 200
    /\ req' = [op |-> "getEvent", id |-> eventId]
    /\ resp' = GetEventResponse(events, eventId)
    /\ ran' = "loadEvent"
    /\ UNCHANGED <<events, saved, eventData, bestSlots, cellsByIndex, mySlots,
                   localStorage, rangeFields, calendarBusy, calendarEventsBySlot,
                   overlayStatus, calendarReply>>
    /\ UNCHANGED auxVars

\* main.js:1148-1168  toggleSlot: the page after it, as the selection, the
\* cells and the stored item
toggleSlot(st, idx, select) ==
    IF idx \notin DOMAIN st.cells THEN st
    ELSE
    LET slots == IF select THEN st.slots \cup {idx} ELSE st.slots \ {idx} IN
    [slots |-> slots,
     cells |-> [st.cells EXCEPT ![idx].mine = select],
     item |-> StringifySlots(slots)]

\* a row that is not held within the grid
clampFree(mins, start, step, rows) == (mins - start) \div step

\* main.js:1681  Math.max(0, Math.min(rows - 1, Math.floor((mins - start) / step)))
clamp(mins, start, step, rows) ==
    LET row == (mins - start) \div step
        low == IF rows - 1 < row THEN rows - 1 ELSE row
    IN IF low < 0 THEN 0 ELSE low

\* main.js:1688-1690  for (let r = sRow; r <= eRow; r++) toggleSlot(..., true)
RECURSIVE SelectRows(_, _, _, _, _)
SelectRows(st, dayIndex, rows, r, eRow) ==
    IF r > eRow THEN st
    ELSE SelectRows(toggleSlot(st, SlotIndex(dayIndex, r, rows), TRUE),
                    dayIndex, rows, r + 1, eRow)

\* the participant chooses a day and types the two times of the range
SetRange(dayIndex, from, to) ==
    /\ eventData # Null
    /\ rangeFields' = [day |-> dayIndex, from |-> from, to |-> to]
    /\ ran' = "none"
    /\ UNCHANGED <<events, req, resp, saved, eventData, bestSlots, cellsByIndex, mySlots,
                   localStorage, calendarBusy, calendarEventsBySlot, overlayStatus,
                   calendarReply>>
    /\ UNCHANGED auxVars

\* main.js:1643-1692  the click on rangeApply. The times are split at ":"
\* and summed as in parseTimeToMinutes; an empty field or an end that is
\* not after the start ends the handler with an alert. A time that is no
\* number makes the row NaN, and the loop has no turn.
rangeApply ==
    /\ eventData # Null
    /\ ran' = "rangeApply"
    /\ LET fromMinutes == parseTimeToMinutes(rangeFields.from)
           toMinutes == parseTimeToMinutes(rangeFields.to)
           start == eventData.startTimeMinutes
           step == eventData.slotMinutes
           rows == eventData.grid.slotsPerDay
           st == [slots |-> mySlots, cells |-> cellsByIndex, item |-> localStorage]
           chosen ==
               IF rangeFields.from = <<>> \/ rangeFields.to = <<>> THEN st
               ELSE IF NumLe(toMinutes, fromMinutes) THEN st
               ELSE IF fromMinutes.k # "int" \/ toMinutes.k # "int"
                       \/ start.k # "int" \/ rows.k # "int" THEN st
               ELSE SelectRows(st, rangeFields.day, rows.v,
                               clamp(fromMinutes.v, start.v, step, rows.v),
                               clamp(toMinutes.v - 1, start.v, step, rows.v))
       IN /\ mySlots' = chosen.slots
          /\ cellsByIndex' = chosen.cells
          /\ localStorage' = chosen.item
    /\ UNCHANGED <<events, req, resp, saved, eventData, bestSlots, rangeFields,
                   calendarBusy, calendarEventsBySlot, overlayStatus, calendarReply>>
    /\ UNCHANGED auxVars

\* a Clear that also saves the empty selection under the name "A"
clearSaved ==
    LET r == PostAvailability(events, 1, [participantName |-> Str(<<"A">>),
                                          slots |-> StringifySlots({})])
    IN /\ events' = r.events
       /\ UNCHANGED <<req, resp, saved>>

\* main.js:1493-1497  clearMyAvailability sends nothing to the server
clearLocal == UNCHANGED <<events, req, resp, saved>>

\* main.js:1493-1497  clearMyAvailability
clearMyAvailability ==
    /\ mySlots' = {}
    /\ localStorage' = StringifySlots({})
    /\ cellsByIndex' = [idx \in DOMAIN cellsByIndex |-> [cellsByIndex[idx] EXCEPT !.mine = FALSE]]
    /\ ran' = "clearMyAvailability"
    /\ clearLocal
    /\ UNCHANGED <<eventData, bestSlots, rangeFields,
                   calendarBusy, calendarEventsBySlot, overlayStatus, calendarReply>>
    /\ UNCHANGED auxVars

\* main.js:1457-1491  saveAvailability with the name typed in the page: the
\* POST reaches the server, and after the answer ok the page loads the
\* event again (main.js:1484); an answer that is not ok is thrown by
\* fetchJson and caught
saveMyAvailability(eventId, name) ==
    LET body == [participantName |-> Str(Trim(name)), slots |-> StringifySlots(mySlots)]
        r == PostAvailability(events, eventId, body)
    IN
    /\ eventData # Null
    /\ Trim(name) # <<>>
    /\ events' = r.events
    /\ saved' = IF r.res.status = 200
                THEN [saved EXCEPT ![eventId] = @ \cup {ToLowerCase(Trim(name))}]
                ELSE saved
    /\ ran' = "saveAvailability"
    /\ IF r.res.status = 200 /\ GetEventResponse(r.events, eventId).status = 200
       THEN /\ req' = [op |-> "getEvent", id |-> eventId]
            /\ resp' = GetEventResponse(r.events, eventId)
            /\ eventData' = BodyOf(resp')
            /\ cellsByIndex' = renderGrid(eventData', mySlots)
            /\ bestSlots' = renderBestSlots(eventData')
       ELSE /\ req' = [op |-> "saveAvailability", id |-> eventId, body |-> body]
            /\ resp' = r.res
            /\ UNCHANGED <<eventData, cellsByIndex, bestSlots>>
    /\ UNCHANGED <<mySlots, localStorage, rangeFields, calendarBusy, calendarEventsBySlot,
                   overlayStatus, calendarReply>>
    /\ UNCHANGED auxVars

\* the seconds of a day
DaySeconds == 86400

\* new Date("<date>T<hh>:<mm>:00").getTime(), in seconds: the minute of a day
Instant(date, minute) == date * DaySeconds + minute * 60

\* ranges whose index counts the rows by the number of days
RangeIndexExchanged(d, r, perDay) == r * perDay + d

\* main.js:1534  ranges[d * perDay + r] = { start, end }
RangeIndex(d, r, perDay) == d * perDay + r

\* main.js:1520-1536  the loops over the days and, inside, over the rows,
\* from row r of day d on
RECURSIVE SlotRanges(_, _, _, _)
SlotRanges(data, d, r, ranges) ==
    IF d >= Len(data.dates) THEN ranges
    ELSE IF r >= RowsOf(data) THEN SlotRanges(data, d + 1, 0, ranges)
    ELSE
    LET startMin == data.startTimeMinutes.v + r * data.slotMinutes
        start == Instant(data.dates[d + 1], startMin)
        end == start + data.slotMinutes * 60
    IN SlotRanges(data, d, r + 1,
            MapSet(ranges, RangeIndex(d, r, RowsOf(data)), [start |-> start, end |-> end]))

\* main.js:1512-1538
buildSlotRanges(data) == SlotRanges(data, 0, 0, <<>>)

\* main.js:1579  new Date(ev.start?.dateTime || (ev.start?.date + "T00:00:00"))
EventStart(ev) ==
    IF ev.kind = "timed" THEN ev.start ELSE Instant(ev.start, 0)

\* main.js:1580  new Date(ev.end?.dateTime || (ev.end?.date + "T23:59:59"))
EventEnd(ev) ==
    IF ev.kind = "timed" THEN ev.end ELSE Instant(ev.end, 0) + DaySeconds - 1

\* a test that takes a range that touches the event for one that meets it
OverlapsClosed(range, ev) ==
    range.start <= EventEnd(ev) /\ range.end >= EventStart(ev)

\* main.js:1582  r.start < e && r.end > s
Overlaps(range, ev) ==
    range.start < EventEnd(ev) /\ range.end > EventStart(ev)

\* a set of busy slots that keeps the slots that were busy before
BusySlotsKept(ranges, items) ==
    calendarBusy \cup
        {idx \in DOMAIN ranges : \E i \in 1..Len(items) : Overlaps(ranges[idx], items[i])}

\* main.js:1576-1596  calendarBusy after the loop over the events
BusySlots(ranges, items) ==
    {idx \in DOMAIN ranges : \E i \in 1..Len(items) : Overlaps(ranges[idx], items[i])}

\* main.js:1584-1593  calendarEventsBySlot after the loop over the events
EventsBySlot(ranges, items) ==
    [idx \in BusySlots(ranges, items) |->
        SelectSeq(items, LAMBDA ev : Overlaps(ranges[idx], ev))]

\* a marking that takes the busy cells out of the shown selection
MarkBusyUnselecting(cells, busy) ==
    [idx \in DOMAIN cells |->
        [cells[idx] EXCEPT !.busy = idx \in busy, !.mine = @ /\ idx \notin busy]]

\* main.js:1598-1600  cell.classList.toggle("busy-calendar", calendarBusy.has(idx))
MarkBusy(cells, busy) ==
    [idx \in DOMAIN cells |-> [cells[idx] EXCEPT !.busy = idx \in busy]]

\* main.js:1562  the status line while the token and the calendar are awaited
Contacting == "Contacting Google Calendar..."

\* main.js:1558-1562  loadCalendarOverlayForCurrentEvent up to its first
\* await; without an event it has returned before
overlaySent ==
    /\ eventData # Null
    /\ loads < MaxCalls
    /\ loads' = loads + 1
    /\ overlayStatus' = Contacting
    /\ ran' = "overlaySent"
    /\ UNCHANGED <<serverVars, eventData, bestSlots, cellsByIndex, mySlots, localStorage,
                   rangeFields, calendarBusy, calendarEventsBySlot, calendarReply,
                   tokenVars, accountVars, dragVars, calls>>

\* main.js:1563-1607  one of the loads that wait goes on after its awaits
\* with what it met: no token and an answer that is not ok are thrown and
\* caught; the events of the calendar are applied in one turn, from
\* calendarBusy.clear() to the marking of the cells
overlayAnswered(reply) ==
    /\ loads > 0
    /\ loads' = loads - 1
    /\ calendarReply' = reply
    /\ ran' = "loadCalendarOverlay"
    /\ IF reply.kind = "noToken"
       THEN /\ overlayStatus' = "No calendar token"
            /\ UNCHANGED <<calendarBusy, calendarEventsBySlot, cellsByIndex>>
       ELSE IF reply.kind = "notOk"
       THEN /\ overlayStatus' = "Calendar error"
            /\ UNCHANGED <<calendarBusy, calendarEventsBySlot, cellsByIndex>>
       ELSE LET ranges == buildSlotRanges(eventData) IN
            /\ calendarBusy' = BusySlots(ranges, reply.items)
            /\ calendarEventsBySlot' = EventsBySlot(ranges, reply.items)
            /\ cellsByIndex' = MarkBusy(cellsByIndex, calendarBusy')
            /\ overlayStatus' = "Overlay applied"
    /\ UNCHANGED <<serverVars, eventData, bestSlots, mySlots, localStorage, rangeFields,
                   tokenVars, accountVars, dragVars, calls>>

\* main.js:1558-1608  loadCalendarOverlayForCurrentEvent. reply is what the
\* request met: no token, an answer of Google that is not ok, or the events
\* of the calendar. The token is sent on to /api/auth/google_calendar, a
\* path that server.js does not serve.
loadCalendarOverlayForCurrentEvent(reply) ==
    /\ calendarReply' = reply
    /\ ran' = "loadCalendarOverlay"
    /\ IF eventData = Null
       THEN /\ overlayStatus' = "Event not loaded yet."
            /\ UNCHANGED <<calendarBusy, calendarEventsBySlot, cellsByIndex>>
       ELSE IF reply.kind = "noToken"
       THEN /\ overlayStatus' = "No calendar token"
            /\ UNCHANGED <<calendarBusy, calendarEventsBySlot, cellsByIndex>>
       ELSE IF reply.kind = "notOk"
       THEN /\ overlayStatus' = "Calendar error"
            /\ UNCHANGED <<calendarBusy, calendarEventsBySlot, cellsByIndex>>
       ELSE LET ranges == buildSlotRanges(eventData) IN
            /\ calendarBusy' = BusySlots(ranges, reply.items)
            /\ calendarEventsBySlot' = EventsBySlot(ranges, reply.items)
            /\ cellsByIndex' = MarkBusy(cellsByIndex, calendarBusy')
            /\ overlayStatus' = "Overlay applied"
    /\ UNCHANGED <<events, req, resp, saved, eventData, bestSlots, mySlots, localStorage,
                   rangeFields>>
    /\ UNCHANGED auxVars

(* The calendar access token (src/public/main.js, getCalendarAccessToken) *)

\* resolve or reject of the promise of call c: a settled promise stays as it is
Settle(c, outcome) ==
    [i \in 1..Len(promises) |->
        IF i = c /\ promises[i] = "pending" THEN outcome ELSE promises[i]]

\* main.js:304-352  getCalendarAccessToken(forceRefresh) in a page where the
\* script of Google is loaded or not.  The item of the session store is
\* "valid" while Date.now() < expires_at - 60000.  The token client is kept
\* as the number of the call that made it: its callback holds the resolve
\* and the reject of that call's promise.  (requestAccessToken opens the
\* consent window and returns; it is taken not to throw.)
getCalendarAccessToken(forceRefresh, loaded) ==
    LET c == Len(promises) + 1 IN
    /\ c <= MaxCalls
    /\ calendarTokenClient # 0 => loaded
    /\ IF ~forceRefresh /\ sessionStorage = "valid"
       THEN /\ promises' = Append(promises, "resolved")
            /\ UNCHANGED <<calendarTokenClient, requests>>
       ELSE IF ~loaded
       THEN /\ promises' = Append(promises, "rejected")
            /\ UNCHANGED <<calendarTokenClient, requests>>
       ELSE /\ calendarTokenClient' = IF calendarTokenClient = 0 THEN c
                                      ELSE calendarTokenClient
            /\ promises' = Append(promises, "pending")
            /\ requests' = requests + 1
    /\ ran' = "getCalendarAccessToken"
    /\ UNCHANGED <<sessionStorage, serverVars, shownVars, accountVars, dragVars, asyncVars>>

\* main.js:327-338  the callback of the token client, which Google invokes
\* with the answer to a requestAccessToken: a token or none
tokenCallback(granted) ==
    /\ requests > 0
    /\ requests' = requests - 1
    /\ IF granted
       THEN /\ sessionStorage' = "valid"
            /\ promises' = Settle(calendarTokenClient, "resolved")
       ELSE /\ promises' = Settle(calendarTokenClient, "rejected")
            /\ UNCHANGED sessionStorage
    /\ ran' = "tokenCallback"
    /\ UNCHANGED <<calendarTokenClient, serverVars, shownVars, accountVars, dragVars, asyncVars>>

\* main.js:310  Date.now() reaches expires_at - 60000
tokenExpires ==
    /\ sessionStorage = "valid"
    /\ sessionStorage' = "expired"
    /\ ran' = "none"
    /\ UNCHANGED <<calendarTokenClient, promises, requests, serverVars, shownVars,
                   accountVars, dragVars, asyncVars>>

(* SpecToken: calls of getCalendarAccessToken, answers of Google, expiry;   *)
(* Google answers every requestAccessToken                                  *)

NextToken ==
    \/ \E forceRefresh \in BOOLEAN, loaded \in BOOLEAN :
          getCalendarAccessToken(forceRefresh, loaded)
    \/ \E granted \in BOOLEAN : tokenCallback(granted)
    \/ tokenExpires

SpecToken ==
    Init /\ [][NextToken]_vars /\ WF_vars(\E granted \in BOOLEAN : tokenCallback(granted))

-----------------------------------------------------------------------------
(* Sign-in, appearance and sign-out (src/server.js:241-319 and             *)
(* src/public/main.js, signOutAllGoogle).  cookie-session keeps req.session *)
(* in the browser's cookie, so the session is one value per browser.        *)

\* the users whose Google ID tokens verify
GoogleIds == {1, 2}

\* server.js:282-285
defaultTheme == [theme |-> "harvard", density |-> "comfortable"]

\* an ID token, as the subject verifyIdToken finds in it; it throws on the
\* token of subject 0
IdToken(sub) == [t |-> "idToken", sub |-> sub]

\* server.js:241-264  POST /api/auth/google
PostAuthGoogle(sess, idToken) ==
    IF idToken = Undef
    THEN [session |-> sess, res |-> Error(400, "Missing idToken")]
    ELSE IF idToken.sub \notin GoogleIds
    THEN [session |-> sess, res |-> Error(401, "Invalid Google token")]
    ELSE [session |-> [user |-> [googleId |-> idToken.sub]],
          res |-> [status |-> 200, ok |-> TRUE, user |-> [googleId |-> idToken.sub]]]

\* server.js:268-273  GET /api/me
GetMe(sess) ==
    IF sess.user = Undef THEN [status |-> 200, user |-> Null]
    ELSE [status |-> 200, user |-> sess.user]

\* server.js:276-279  POST /api/logout: req.session = null
PostLogout(sess) ==
    [session |-> [user |-> Undef], res |-> [status |-> 200, ok |-> TRUE]]

\* server.js:288-295  GET /api/theme
GetTheme(sess, saved_) ==
    IF sess.user = Undef THEN Error(401, "Not signed in")
    ELSE IF sess.user.googleId \in DOMAIN saved_
    THEN [status |-> 200, prefs |-> saved_[sess.user.googleId]]
    ELSE [status |-> 200, prefs |-> defaultTheme]

\* server.js:298-319  POST /api/theme
PostTheme(sess, saved_, body) ==
    IF sess.user = Undef
    THEN [themes |-> saved_, res |-> Error(401, "Not signed in")]
    ELSE
    LET safeTheme == IF body.theme \in {"harvard", "midnight", "forest"}
                     THEN body.theme ELSE defaultTheme.theme
        safeDensity == IF body.density \in {"comfortable", "compact"}
                       THEN body.density ELSE defaultTheme.density
        prefs == [theme |-> safeTheme, density |-> safeDensity]
    IN [themes |-> [g \in DOMAIN saved_ \cup {sess.user.googleId} |->
                       IF g = sess.user.googleId THEN prefs ELSE saved_[g]],
        res |-> [status |-> 200, ok |-> TRUE, theme |-> prefs]]

\* the routes of server.js that take a POST and change the session: a path
\* no route is registered for falls through express.static, which serves
\* GET and HEAD only, to the 404 of Express
PostRoute(path, sess) ==
    IF path = "/api/logout" THEN PostLogout(sess)
    ELSE [session |-> sess, res |-> Error(404, "Cannot POST")]

\* the sign-in of Google hands the page a credential, which it posts
AuthGoogle(idToken) ==
    LET r == PostAuthGoogle(session, idToken) IN
    /\ session' = r.session
    /\ req' = [op |-> "authGoogle", idToken |-> idToken]
    /\ resp' = r.res
    /\ ran' = "none"
    /\ UNCHANGED <<events, saved, themes, shownVars, tokenVars, dragVars, asyncVars>>

Me ==
    /\ req' = [op |-> "me"]
    /\ resp' = GetMe(session)
    /\ ran' = "none"
    /\ UNCHANGED <<events, saved, accountVars, shownVars, tokenVars, dragVars, asyncVars>>

Theme ==
    /\ req' = [op |-> "theme"]
    /\ resp' = GetTheme(session, themes)
    /\ ran' = "none"
    /\ UNCHANGED <<events, saved, accountVars, shownVars, tokenVars, dragVars, asyncVars>>

SaveTheme(body) ==
    LET r == PostTheme(session, themes, body) IN
    /\ themes' = r.themes
    /\ req' = [op |-> "saveTheme", body |-> body]
    /\ resp' = r.res
    /\ ran' = "none"
    /\ UNCHANGED <<events, saved, session, shownVars, tokenVars, dragVars, asyncVars>>

\* a POST of /api/logout, which no line of main.js sends
Logout ==
    LET r == PostRoute("/api/logout", session) IN
    /\ session' = r.session
    /\ req' = [op |-> "logout", path |-> "/api/logout"]
    /\ resp' = r.res
    /\ ran' = "none"
    /\ UNCHANGED <<events, saved, themes, shownVars, tokenVars, dragVars, asyncVars>>

\* window.location.reload(), or the page opened again: what the script held
\* in memory is gone and initEventPage (main.js:878-911) runs anew; the
\* local store, the session store and the cookie stay
MemoryCleared ==
    /\ eventData' = Null
    /\ bestSlots' = <<>>
    /\ cellsByIndex' = <<>>
    /\ mySlots' = ParseSlots(localStorage)
    /\ rangeFields' = [day |-> 0, from |-> <<>>, to |-> <<>>]
    /\ calendarBusy' = {}
    /\ calendarEventsBySlot' = <<>>
    /\ overlayStatus' = ""
    /\ calendarReply' = Null
    /\ calendarTokenClient' = 0
    /\ promises' = <<>>
    /\ requests' = 0
    /\ isDown' = FALSE
    /\ dragMode' = "null"
    /\ calls' = <<>>
    /\ loads' = 0
    /\ UNCHANGED <<localStorage, sessionStorage>>

\* main.js:591-616  signOutAllGoogle: the POST of /api/auth/logout, whose
\* failure is ignored, the removal of the profile items and the reload
signOutAllGoogle ==
    LET r == PostRoute("/api/auth/logout", session) IN
    /\ session' = r.session
    /\ req' = [op |-> "logout", path |-> "/api/auth/logout"]
    /\ resp' = r.res
    /\ MemoryCleared
    /\ ran' = "signOutAllGoogle"
    /\ UNCHANGED <<events, saved, themes>>

(* SpecAccount: sign-in, the requests of a signed-in page, sign-out *)

ThemeBodies == [theme : {"midnight", "x"}, density : {"compact", "x"}]

NextAccount ==
    \/ \E idToken \in {IdToken(sub) : sub \in GoogleIds \cup {0}} \cup {Undef} :
          AuthGoogle(idToken)
    \/ Me
    \/ Theme
    \/ \E body \in ThemeBodies : SaveTheme(body)
    \/ Logout
    \/ signOutAllGoogle

SpecAccount == Init /\ [][NextAccount]_vars

-----------------------------------------------------------------------------
(* Selecting by pointer (src/public/main.js, attachCellListeners) *)

\* a pressed pointer that toggles every cell it enters
dragToggled(slots, idx, mode) == idx \notin slots

\* main.js:1095  toggleSlot(idx, dragMode === "add"): what the cell becomes
dragSelects(slots, idx, mode) == mode = "add"

\* main.js:1077-1084  pointerdown on the cell of index idx
pointerdown(idx) ==
    LET isSelected == idx \in mySlots
        mode == IF isSelected THEN "remove" ELSE "add"
        st == toggleSlot([slots |-> mySlots, cells |-> cellsByIndex, item |-> localStorage],
                         idx, mode = "add")
    IN
    /\ idx \in DOMAIN cellsByIndex
    /\ isDown' = TRUE
    /\ dragMode' = mode
    /\ mySlots' = st.slots
    /\ cellsByIndex' = st.cells
    /\ localStorage' = st.item
    /\ ran' = "pointerdown"
    /\ UNCHANGED <<serverVars, eventData, bestSlots, rangeFields, calendarBusy,
                   calendarEventsBySlot, overlayStatus, calendarReply, tokenVars,
                   accountVars, asyncVars>>

\* main.js:1093-1096  pointerenter on the cell of index idx
pointerenter(idx) ==
    LET st == IF ~isDown \/ dragMode = "null"
              THEN [slots |-> mySlots, cells |-> cellsByIndex, item |-> localStorage]
              ELSE toggleSlot([slots |-> mySlots, cells |-> cellsByIndex,
                               item |-> localStorage],
                              idx, dragSelects(mySlots, idx, dragMode))
    IN
    /\ idx \in DOMAIN cellsByIndex
    /\ mySlots' = st.slots
    /\ cellsByIndex' = st.cells
    /\ localStorage' = st.item
    /\ ran' = "pointerenter"
    /\ UNCHANGED <<serverVars, eventData, bestSlots, rangeFields, calendarBusy,
                   calendarEventsBySlot, overlayStatus, calendarReply, tokenVars,
                   accountVars, dragVars, asyncVars>>

\* the pointerup listener that clears nothing
pointerupKept == /\ UNCHANGED dragVars

\* main.js:1016-1019  the pointerup listener of the window
pointerupCleared ==
    /\ isDown' = FALSE
    /\ dragMode' = "null"

pointerup ==
    /\ pointerupCleared
    /\ ran' = "pointerup"
    /\ UNCHANGED <<serverVars, shownVars, tokenVars, accountVars, asyncVars>>

\* the participant loads the page again
reload ==
    /\ MemoryCleared
    /\ ran' = "reload"
    /\ UNCHANGED <<serverVars, accountVars>>


-----------------------------------------------------------------------------
(* Requests on their way (src/public/main.js, loadEvent and saveAvailability) *)

\* the saves a page has on their way at once
MaxSaves == 2

\* a sequence without its element c
Without(s, c) == [i \in 1..(Len(s) - 1) |-> IF i < c THEN s[i] ELSE s[i + 1]]

\* a sequence with the stage and the answer of its element c changed
Staged(s, c, stage, answer) ==
    [s EXCEPT ![c] = [@ EXCEPT !.stage = stage, !.answer = answer]]

\* main.js:1715  the page that was opened calls loadEvent: the GET leaves
pageLoads(eventId) ==
    /\ eventData = Null
    /\ calls = <<>>
    /\ calls' = Append(calls, [stage |-> "reading", id |-> eventId, body |-> Null,
                               answer |-> Null])
    /\ ran' = "initEventPage"
    /\ UNCHANGED <<serverVars, shownVars, tokenVars, accountVars, dragVars, loads>>

\* main.js:1457-1478  the click on Save, up to the await of the POST
saveSent(eventId, name) ==
    /\ eventData # Null
    /\ Trim(name) # <<>>
    /\ Len(calls) < MaxSaves
    /\ calls' = Append(calls, [stage |-> "posted", id |-> eventId,
                               body |-> [participantName |-> Str(Trim(name)),
                                         slots |-> StringifySlots(mySlots)],
                               answer |-> Null])
    /\ ran' = "saveAvailability"
    /\ UNCHANGED <<serverVars, shownVars, tokenVars, accountVars, dragVars, loads>>

\* server.js:183-220  the server handles the POST of call c
serverSaves(c) ==
    LET r == PostAvailability(events, calls[c].id, calls[c].body) IN
    /\ c \in 1..Len(calls)
    /\ calls[c].stage = "posted"
    /\ events' = r.events
    /\ saved' = IF r.res.status = 200
                THEN [saved EXCEPT ![calls[c].id] =
                          @ \cup {ToLowerCase(calls[c].body.participantName.s)}]
                ELSE saved
    /\ req' = [op |-> "saveAvailability", id |-> calls[c].id, body |-> calls[c].body]
    /\ resp' = r.res
    /\ calls' = Staged(calls, c, "saved", r.res)
    /\ ran' = "none"
    /\ UNCHANGED <<shownVars, tokenVars, accountVars, dragVars, loads>>

\* main.js:1478-1490  the answer of the POST of call c reaches the page: an
\* answer ok calls loadEvent, whose GET leaves; any other is caught
saveAnswered(c) ==
    /\ c \in 1..Len(calls)
    /\ calls[c].stage = "saved"
    /\ calls' = IF calls[c].answer.status = 200
                THEN Staged(calls, c, "reading", Null)
                ELSE Without(calls, c)
    /\ ran' = "saveAvailability"
    /\ UNCHANGED <<serverVars, shownVars, tokenVars, accountVars, dragVars, loads>>

\* server.js:148-180  the server handles the GET of call c
serverReads(c) ==
    /\ c \in 1..Len(calls)
    /\ calls[c].stage = "reading"
    /\ req' = [op |-> "getEvent", id |-> calls[c].id]
    /\ resp' = GetEventResponse(events, calls[c].id)
    /\ calls' = Staged(calls, c, "read", resp')
    /\ ran' = "none"
    /\ UNCHANGED <<events, saved, shownVars, tokenVars, accountVars, dragVars, loads>>

\* main.js:1022-1033  the answer of the GET of call c reaches the page:
\* loadEvent takes an answer ok as eventData and renders it
loadAnswered(c) ==
    /\ c \in 1..Len(calls)
    /\ calls[c].stage = "read"
    /\ calls' = Without(calls, c)
    /\ ran' = "loadEvent"
    /\ IF calls[c].answer.status = 200
       THEN /\ eventData' = BodyOf(calls[c].answer)
            /\ cellsByIndex' = renderGrid(eventData', mySlots)
            /\ bestSlots' = renderBestSlots(eventData')
       ELSE UNCHANGED <<eventData, cellsByIndex, bestSlots>>
    /\ UNCHANGED <<serverVars, mySlots, localStorage, rangeFields, calendarBusy,
                   calendarEventsBySlot, overlayStatus, calendarReply, tokenVars,
                   accountVars, dragVars, loads>>

-----------------------------------------------------------------------------
(* SpecPage: the page loads an event that has its participants *)

\* "9:00"-"10:00" in slots of 20 minutes over two days: three rows
ThirdsBody == [BaseBody EXCEPT !.startDate = DateStr(1), !.endDate = DateStr(2),
                               !.slotMinutes = Num(20)]

\* the names of those who save
PageNames == << <<"A">>, <<"B">>, <<"A", "B">>, <<"B", "A">> >>

\* the integers of a set in ascending order
RECURSIVE Ascending(_)
Ascending(S) ==
    IF S = {} THEN <<>>
    ELSE LET m == CHOOSE x \in S : \A y \in S : x <= y
         IN <<m>> \o Ascending(S \ {m})

\* the store after the first n of PageNames have saved: the i-th of them
\* the slots whose count is to be at least i
RECURSIVE SavedBy(_, _, _, _)
SavedBy(evs, id, counts, n) ==
    IF n = 0 THEN evs
    ELSE PostAvailability(SavedBy(evs, id, counts, n - 1), id,
            [participantName |-> Str(PageNames[n]),
             slots |-> NumList(Ascending({c \in DOMAIN counts : counts[c] >= n}))]).events

\* the largest value of a function to the naturals
Largest(counts) == CHOOSE m \in {counts[c] : c \in DOMAIN counts} :
                      \A c \in DOMAIN counts : counts[c] <= m

\* every store of one event of two days of three slots whose slots were
\* chosen by up to Len(PageNames) participants
CountedStores ==
    LET created == PostEvent(<<>>, ThirdsBody, 1).events IN
    {SavedBy(created, 1, counts, Largest(counts)) :
        counts \in [0..(Len(created[1].dates) * ArrayLength(slotsPerDayOf(created[1])) - 1)
                      -> 0..Len(PageNames)]}

\* the stores of one event of every other shape, nobody having saved or one
\* participant having saved no slot
ShapedStores ==
    LET created(body) == PostEvent(<<>>, body, 1).events IN
    UNION {{created(body),
            PostAvailability(created(body), 1,
                [participantName |-> Str(PageNames[1]), slots |-> NumList(<<>>)]).events} :
           body \in {[BaseBody EXCEPT !.endDate = DateStr(d), !.slotMinutes = Num(m)] :
                        d \in 1..MaxDay, m \in {15, 30, 60}}}

InitPage ==
    /\ events \in CountedStores \cup ShapedStores \cup {<<>>}
    /\ req = [op |-> "none"]
    /\ resp = [status |-> 0]
    /\ saved = [id \in DOMAIN events |->
                   {events[id].participants[i].key : i \in 1..Len(events[id].participants)}]
    /\ PageOpened(Null)

NextPage ==
    \/ \E eventId \in Ids : loadEvent(eventId)
    \/ \E eventId \in Ids : loadEventFailed(eventId)

SpecPage == InitPage /\ [][NextPage]_vars

(* SpecSelect: the participant selects ranges of a loaded event *)

\* the text "hh:mm" of a time field
Clock(h, m) == <<h[1], h[2], ":", m[1], m[2]>>

\* the ranges typed, as <<from, to>>: within the window 9:00-10:00, across
\* its edges, outside it, empty, inverted and not filled
RangeTexts ==
    {<<Clock(<<"0", "9">>, <<"0", "0">>), Clock(<<"1", "0">>, <<"0", "0">>)>>,
     <<Clock(<<"0", "9">>, <<"0", "0">>), Clock(<<"0", "9">>, <<"2", "0">>)>>,
     <<Clock(<<"0", "9">>, <<"2", "0">>), Clock(<<"0", "9">>, <<"4", "0">>)>>,
     <<Clock(<<"0", "9">>, <<"4", "0">>), Clock(<<"1", "0">>, <<"0", "0">>)>>,
     <<Clock(<<"0", "9">>, <<"1", "0">>), Clock(<<"0", "9">>, <<"3", "0">>)>>,
     <<Clock(<<"0", "9">>, <<"3", "0">>), Clock(<<"0", "9">>, <<"3", "1">>)>>,
     <<Clock(<<"0", "8">>, <<"0", "0">>), Clock(<<"0", "9">>, <<"1", "0">>)>>,
     <<Clock(<<"0", "9">>, <<"5", "0">>), Clock(<<"1", "1">>, <<"0", "0">>)>>,
     <<Clock(<<"0", "8">>, <<"0", "0">>), Clock(<<"1", "1">>, <<"0", "0">>)>>,
     <<Clock(<<"0", "7">>, <<"0", "0">>), Clock(<<"0", "8">>, <<"0", "0">>)>>,
     <<Clock(<<"0", "8">>, <<"0", "0">>), Clock(<<"0", "9">>, <<"0", "0">>)>>,
     <<Clock(<<"1", "0">>, <<"0", "0">>), Clock(<<"1", "1">>, <<"0", "0">>)>>,
     <<Clock(<<"1", "0">>, <<"0", "0">>), Clock(<<"0", "9">>, <<"0", "0">>)>>,
     <<Clock(<<"0", "9">>, <<"2", "0">>), Clock(<<"0", "9">>, <<"2", "0">>)>>,
     <<Clock(<<"0", "9">>, <<"0", "0">>), <<>>>>,
     <<<<>>, Clock(<<"1", "0">>, <<"0", "0">>)>>}

\* the store of one event of two days of three slots in which "B" has saved
\* the slot 1
SelectStore ==
    PostAvailability(PostEvent(<<>>, ThirdsBody, 1).events, 1,
        [participantName |-> Str(PageNames[2]), slots |-> NumList(<<1>>)]).events

InitSelect ==
    /\ events = SelectStore
    /\ req = [op |-> "none"]
    /\ resp = [status |-> 0]
    /\ saved = [id \in DOMAIN events |->
                   {events[id].participants[i].key : i \in 1..Len(events[id].participants)}]
    /\ \E item \in {Null, NumList(<<4>>)} : PageOpened(item)

NextSelect ==
    \/ \E eventId \in Ids : loadEvent(eventId)
    \/ \E dayIndex \in 0..1, texts \in RangeTexts : SetRange(dayIndex, texts[1], texts[2])
    \/ rangeApply
    \/ clearMyAvailability

SpecSelect == InitSelect /\ [][NextSelect]_vars

(* SpecDrag: the event of SelectStore in a page; presses, moves and         *)
(* releases of the pointer over its cells, ranges, the Clear button and     *)
(* reloads of the page                                                      *)

\* the ranges typed in SpecDrag: the whole window and its middle third
DragTexts ==
    {<<Clock(<<"0", "9">>, <<"0", "0">>), Clock(<<"1", "0">>, <<"0", "0">>)>>,
     <<Clock(<<"0", "9">>, <<"2", "0">>), Clock(<<"0", "9">>, <<"4", "0">>)>>}

NextDrag ==
    \/ \E eventId \in Ids : loadEvent(eventId)
    \/ \E dayIndex \in 0..1, texts \in DragTexts : SetRange(dayIndex, texts[1], texts[2])
    \/ rangeApply
    \/ \E idx \in 0..5 : pointerdown(idx)
    \/ \E idx \in 0..5 : pointerenter(idx)
    \/ pointerup
    \/ clearMyAvailability
    \/ reload

SpecDrag == InitSelect /\ [][NextDrag]_vars

(* SpecClear: the participant presses cells of the first day, saves, and   *)
(* clears the selection                                                     *)

NextClear ==
    \/ \E eventId \in Ids : loadEvent(eventId)
    \/ \E idx \in 0..2 : pointerdown(idx)
    \/ pointerup
    \/ \E eventId \in Ids : saveMyAvailability(eventId, PageNames[1])
    \/ clearMyAvailability

SpecClear == InitSelect /\ [][NextClear]_vars

(* SpecOverlay: the participant selects, saves and loads the overlay *)

\* a calendar event with start.dateTime and end.dateTime
Timed(start, end) == [kind |-> "timed", start |-> start, end |-> end]

\* a calendar event with start.date and end.date
AllDay(start, end) == [kind |-> "allDay", start |-> start, end |-> end]

\* the events of the calendar: from 9:20 to 9:40 of day 1, which the slots
\* before and after touch; from 9:10 to 9:30; from 8:20 to 9:00, which ends
\* where the window starts; the whole of day 2
CalendarItems ==
    {<<>>,
     <<Timed(Instant(1, 560), Instant(1, 580))>>,
     <<Timed(Instant(1, 550), Instant(1, 570))>>,
     <<Timed(Instant(1, 500), Instant(1, 540))>>,
     <<AllDay(2, 2)>>,
     <<Timed(Instant(1, 560), Instant(1, 580)), AllDay(2, 2)>>}

\* what a request of the overlay meets
CalendarReplies ==
    {[kind |-> "noToken"], [kind |-> "notOk"]}
        \cup {[kind |-> "ok", items |-> items] : items \in CalendarItems}

\* the ranges typed: the first slot of day 0, the last two of day 1
OverlayRanges ==
    {<<0, Clock(<<"0", "9">>, <<"0", "0">>), Clock(<<"0", "9">>, <<"2", "0">>)>>,
     <<1, Clock(<<"0", "9">>, <<"2", "0">>), Clock(<<"1", "0">>, <<"0", "0">>)>>}

InitOverlay ==
    /\ events = SelectStore
    /\ req = [op |-> "none"]
    /\ resp = [status |-> 0]
    /\ saved = [id \in DOMAIN events |->
                   {events[id].participants[i].key : i \in 1..Len(events[id].participants)}]
    /\ PageOpened(Null)

NextOverlay ==
    \/ \E eventId \in Ids : loadEvent(eventId)
    \/ \E range \in OverlayRanges : SetRange(range[1], range[2], range[3])
    \/ rangeApply
    \/ \E eventId \in Ids : saveMyAvailability(eventId, PageNames[1])
    \/ \E reply \in CalendarReplies : loadCalendarOverlayForCurrentEvent(reply)

SpecOverlay == InitOverlay /\ [][NextOverlay]_vars

(* SpecLoads: loads of the overlay that wait for their answers together *)

NextLoads ==
    \/ \E eventId \in Ids : loadEvent(eventId)
    \/ overlaySent
    \/ \E reply \in CalendarReplies : overlayAnswered(reply)

SpecLoads == InitOverlay /\ [][NextLoads]_vars

(* SpecAsync: the participant presses cells and saves; the requests and    *)
(* their answers travel on their own                                        *)

NextAsync ==
    \/ \E eventId \in Ids : pageLoads(eventId)
    \/ \E idx \in 0..1 : pointerdown(idx)
    \/ pointerup
    \/ \E eventId \in Ids : saveSent(eventId, PageNames[1])
    \/ \E c \in 1..MaxSaves : serverSaves(c)
    \/ \E c \in 1..MaxSaves : saveAnswered(c)
    \/ \E c \in 1..MaxSaves : serverReads(c)
    \/ \E c \in 1..MaxSaves : loadAnswered(c)

SpecAsync == InitOverlay /\ [][NextAsync]_vars

-----------------------------------------------------------------------------
(* Vocabulary of the properties *)

\* the number of slot indices of an event, D * slotsPerDay
TotalSlots(event) ==
    LET n == slotsPerDayOf(event) IN
    IF n.k = "int" /\ n.v > 0 THEN Len(event.dates) * n.v ELSE 0

\* the stored entries of an event whose key is the trimmed, lower-cased name
EntriesOf(event, name) ==
    {i \in 1..Len(event.participants) :
        event.participants[i].key = ToLowerCase(Trim(name))}

\* the last handler run was a save that answered { ok: true }
SaveSucceeded == req.op = "saveAvailability" /\ resp.status = 200

\* the last handler run was a read that answered with the event
ReadSucceeded == req.op = "getEvent" /\ resp.status = 200

\* the integers of a slots array that are indices of the event
IndicesInRange(slots, event) ==
    {IntNum(slots[i].n) : i \in {j \in 1..Len(slots) :
        slots[j].t = "num" /\ 0 <= slots[j].n /\ slots[j].n < TotalSlots(event)}}

-----------------------------------------------------------------------------
(* C1: a read returns, for every row r and day d of the event, the number   *)
(* of participants now stored whose slot set contains d * slotsPerDay + r.  *)
C1_AggregateCountsStore ==
    ReadSucceeded =>
        LET event == events[req.id]
            n == slotsPerDayOf(event)
            rows == IF n.k = "int" /\ n.v > 0 THEN n.v ELSE 0
            days == Len(event.dates)
            grid == resp.grid.aggregate
        IN
        /\ DOMAIN grid = 0..(rows - 1)
        /\ \A r \in 0..(rows - 1) :
            /\ DOMAIN grid[r] = 0..(days - 1)
            /\ \A d \in 0..(days - 1) :
                grid[r][d] = Cardinality({i \in 1..Len(event.participants) :
                    IntNum(d * n.v + r) \in event.participants[i].slots})

\* the scenario of two days of two slots: A saved [0, 2], B saved 2
C1_Witness ==
    /\ ReadSucceeded
    /\ resp.grid.slotsPerDay = IntNum(2)
    /\ Len(resp.dates) = 2
    /\ resp.grid.aggregate[0][0] = 1
    /\ resp.grid.aggregate[0][1] = 2
    /\ resp.grid.aggregate[1][0] = 0
    /\ resp.grid.aggregate[1][1] = 0

(* C2: every stored slot set holds only integers in [0, D * slotsPerDay)    *)
(* of its event, whatever values were submitted.                            *)
C2_StoredSlotsInRange ==
    \A id \in DOMAIN events :
        \A i \in 1..Len(events[id].participants) :
            \A s \in events[id].participants[i].slots :
                s.k = "int" /\ 0 <= s.v /\ s.v < TotalSlots(events[id])

\* a save of [7, 8] on two days of four slots stored 7 alone
C2_Witness ==
    /\ SaveSucceeded
    /\ req.body.slots = NumList(<<7, 8>>)
    /\ TotalSlots(events[req.id]) = 8
    /\ events[req.id].participants[1].slots = {IntNum(7)}

(* C3: a save whose slots are indices, some out of range, is accepted and   *)
(* stores exactly the indices of the request that are in range.             *)
C3_OutOfRangeDropped ==
    (/\ req.op = "saveAvailability"
     /\ req.id \in DOMAIN events
     /\ req.body.participantName.t = "str"
     /\ Trim(req.body.participantName.s) # <<>>
     /\ req.body.slots.t = "array"
     /\ \A i \in 1..Len(req.body.slots.a) : req.body.slots.a[i].t = "num"
     /\ \E i \in 1..Len(req.body.slots.a) :
            \/ req.body.slots.a[i].n < 0
            \/ req.body.slots.a[i].n >= TotalSlots(events[req.id]))
    => (/\ resp.status = 200
        /\ Cardinality(EntriesOf(events[req.id], req.body.participantName.s)) = 1
        /\ \A i \in EntriesOf(events[req.id], req.body.participantName.s) :
              events[req.id].participants[i].slots
                  = IndicesInRange(req.body.slots.a, events[req.id]))

\* slotsPerDay = 4 and 2 days: saving [2, 99, -1] stored {2}
C3_Witness ==
    /\ SaveSucceeded
    /\ req.body.slots = NumList(<<2, 99, -1>>)
    /\ TotalSlots(events[req.id]) = 8
    /\ slotsPerDayOf(events[req.id]) = IntNum(4)
    /\ events[req.id].participants[1].slots = {IntNum(2)}

(* C4: a submitted value that is no integer (a fraction, null, an empty     *)
(* string, a boolean, a non-numeric string) adds no index to the stored     *)
(* set: every stored index is an integer of the request.                    *)
C4_NonIntegersDropped ==
    SaveSucceeded =>
        \A i \in EntriesOf(events[req.id], req.body.participantName.s) :
            \A s \in events[req.id].participants[i].slots :
                \E j \in 1..Len(req.body.slots.a) : req.body.slots.a[j] = Num(s.v)

(* C5: a successful save replaces the entry of its key: afterwards the one  *)
(* entry of that key holds the latest trimmed name and exactly the slots    *)
(* of the latest request that are in range, never also the earlier ones.    *)
C5_SaveReplaces ==
    SaveSucceeded =>
        /\ Cardinality(EntriesOf(events[req.id], req.body.participantName.s)) = 1
        /\ \A i \in EntriesOf(events[req.id], req.body.participantName.s) :
            /\ events[req.id].participants[i].name = Trim(req.body.participantName.s)
            /\ events[req.id].participants[i].slots
                  = IndicesInRange(req.body.slots.a, events[req.id])

\* the entry "a" stands before the entry "b", so it was there when the last
\* request, a save of [2, 99] as "a ", found it and replaced it
C5_Witness ==
    /\ SaveSucceeded
    /\ req.body.participantName = Str(<<"a", " ">>)
    /\ req.body.slots = NumList(<<2, 99>>)
    /\ Len(events[req.id].participants) = 2
    /\ events[req.id].participants[1] =
          [key |-> <<"a">>, name |-> <<"a">>, slots |-> {IntNum(2)}]
    /\ events[req.id].participants[2].key = <<"b">>

C7_SaveIdempotent ==
    \A id \in Ids, body \in SaveBodies :
        LET once == PostAvailability(events, id, body).events
            twice == PostAvailability(once, id, body).events
        IN /\ twice = once
           /\ GetEventResponse(twice, id) = GetEventResponse(once, id)

\* a save among two participants has been made, and making it again gives
\* this state
C7_Witness ==
    /\ SaveSucceeded
    /\ Len(events[req.id].participants) = 2
    /\ events[req.id].participants[2].slots # {}
    /\ PostAvailability(events, req.id, req.body).events = events

(* C8: every stored event has slotsPerDay >= 1, and no read returns an      *)
(* empty grid: a create-event request whose floor((end - start) /           *)
(* slotMinutes) is not at least 1 stores no event.                          *)
C8_NoEventWithoutSlots ==
    /\ \A id \in DOMAIN events :
          slotsPerDayOf(events[id]).k = "int" /\ slotsPerDayOf(events[id]).v >= 1
    /\ ReadSucceeded => DOMAIN resp.grid.aggregate # {}

(* C9: every stored event has integer startTimeMinutes and endTimeMinutes   *)
(* with 0 <= startTimeMinutes < endTimeMinutes <= 1440.                     *)
C9_WindowWithinDay ==
    \A id \in DOMAIN events :
        /\ events[id].startTimeMinutes.k = "int"
        /\ events[id].endTimeMinutes.k = "int"
        /\ 0 <= events[id].startTimeMinutes.v
        /\ events[id].startTimeMinutes.v < events[id].endTimeMinutes.v
        /\ events[id].endTimeMinutes.v <= 1440

\* a field of a create-event request that is not there
Absent(x) == x.t \in {"undefined", "null"} \/ x = Str(<<>>)

\* a slot length that is a positive integer, as a number or in decimal digits
PositiveInteger(x) ==
    \/ x.t = "num" /\ x.n > 0
    \/ x.t = "str" /\ IsDigits(x.s) /\ DecimalValue(x.s) > 0

\* a create-event request with a missing field, an invalid or inverted date
\* range, or a slot length that is no positive integer
Malformed(body) ==
    \/ Absent(body.title) \/ Absent(body.startDate) \/ Absent(body.endDate)
    \/ Absent(body.startTime) \/ Absent(body.endTime) \/ Absent(body.slotMinutes)
    \/ body.startDate.t # "date" \/ body.endDate.t # "date"
    \/ body.startDate.d > body.endDate.d
    \/ ~PositiveInteger(body.slotMinutes)

(* C10: a create-event request with a missing field, an invalid or inverted *)
(* date range, or a slot length that is no positive integer is answered     *)
(* with a validation error and leaves the event store as it was.            *)
C10_MalformedCreateRejected ==
    [][(req'.op = "createEvent" /\ Malformed(req'.body))
           => (resp'.status = 400 /\ events' = events)]_vars

\* a participant name that is missing, empty or made of blanks only
NoName(x) ==
    \/ x.t \in {"undefined", "null"}
    \/ x.t = "str" /\ \A i \in 1..Len(x.s) : x.s[i] = " "

(* C11: a save to a stored event whose participant name is missing, empty   *)
(* or whitespace-only is answered with a validation error and leaves the    *)
(* participants of the event as they were.                                  *)
C11_NamelessSaveRejected ==
    [][(/\ req'.op = "saveAvailability"
        /\ req'.id \in DOMAIN events
        /\ NoName(req'.body.participantName))
           => (/\ resp'.status = 400
               /\ events'[req'.id].participants = events[req'.id].participants)]_vars

\* a save under the name " " was refused with "Name is required." on an
\* event that has its two participants
C11_Witness ==
    /\ req.op = "saveAvailability"
    /\ req.body.participantName = Str(<<" ">>)
    /\ req.body.slots = NumList(<<0, 2>>)
    /\ resp = Error(400, "Name is required.")
    /\ req.id \in DOMAIN events
    /\ Len(events[req.id].participants) = 2

(* C12: a read or a save addressed to an id under which no event is stored *)
(* is answered with the not-found error and changes nothing: no event is    *)
(* created and no participant of any event is modified.                     *)
C12_UnknownIdNotFound ==
    [][(/\ req'.op \in {"getEvent", "saveAvailability"}
        /\ req'.id \notin DOMAIN events)
           => (resp'.status = 404 /\ events' = events)]_vars

\* the stored participants of an event whose slot set holds the index idx
Selectors(event, idx) ==
    {i \in 1..Len(event.participants) : IntNum(idx) \in event.participants[i].slots}

\* the values of a sequence
Range(seq) == {seq[i] : i \in 1..Len(seq)}

(* C13: in every read, who[r][d] lists exactly the display names of the     *)
(* participants whose slot set contains d * slotsPerDay + r, each of them   *)
(* once, so that it is as long as aggregate[r][d] says.                     *)
C13_WhoListsSelectors ==
    ReadSucceeded =>
        LET event == events[req.id]
            n == resp.grid.slotsPerDay
            who == resp.grid.who
        IN
        \A r \in DOMAIN who : \A d \in DOMAIN who[r] :
            LET sel == Selectors(event, d * n.v + r) IN
            /\ Range(who[r][d]) = {event.participants[i].name : i \in sel}
            /\ Len(who[r][d]) = Cardinality(sel)
            /\ Len(who[r][d]) = resp.grid.aggregate[r][d]

\* two days of two slots, A saved [0, 2] and B saved 2: both are listed in
\* row 0 of day 1, A alone in row 0 of day 0, nobody in row 1
C13_Witness ==
    /\ ReadSucceeded
    /\ resp.grid.slotsPerDay = IntNum(2)
    /\ Len(resp.dates) = 2
    /\ Range(resp.grid.who[0][1]) = {<<"A">>, <<"B">>}
    /\ resp.grid.who[0][0] = <<(<<"A">>)>>
    /\ resp.grid.who[1][0] = <<>>
    /\ resp.grid.who[1][1] = <<>>

\* the code unit of a character of the names
CharCode(c) ==
    CASE c = " " -> 32
      [] c = "A" -> 65
      [] c = "B" -> 66
      [] c = "a" -> 97
      [] c = "b" -> 98

\* a < b for strings, by code units
RECURSIVE StringLess(_, _)
StringLess(a, b) ==
    IF b = <<>> THEN FALSE
    ELSE IF a = <<>> THEN TRUE
    ELSE IF Head(a) = Head(b) THEN StringLess(Tail(a), Tail(b))
    ELSE CharCode(Head(a)) < CharCode(Head(b))

(* C14: in every read the names of every who[r][d] stand in ascending order *)
(* of their normalized name keys, in whatever order the participants saved. *)
C14_WhoInKeyOrder ==
    ReadSucceeded =>
        \A r \in DOMAIN resp.grid.who : \A d \in DOMAIN resp.grid.who[r] :
            LET names == resp.grid.who[r][d] IN
            \A i \in 1..Len(names) : \A j \in (i + 1)..Len(names) :
                StringLess(ToLowerCase(Trim(names[i])), ToLowerCase(Trim(names[j])))

\* the counts of all cells of a grid
CellCounts(aggregate) ==
    UNION {{aggregate[r][d] : d \in DOMAIN aggregate[r]} : r \in DOMAIN aggregate}

(* C15: in every read maxCount is the largest aggregate[r][d] of the grid   *)
(* (0 for a grid without cells), and it is 0 exactly when no stored         *)
(* participant has a selected slot.                                         *)
C15_MaxCountIsMaximum ==
    ReadSucceeded =>
        LET counts == CellCounts(resp.grid.aggregate) \cup {0}
            event == events[req.id]
        IN
        /\ resp.grid.maxCount \in counts
        /\ \A c \in counts : c <= resp.grid.maxCount
        /\ resp.grid.maxCount = 0
              <=> \A i \in 1..Len(event.participants) : event.participants[i].slots = {}

\* A saved [0, 2] and B saved 2: the counts are 1, 2, 0, 0 and maxCount is 2
C15_Witness ==
    /\ ReadSucceeded
    /\ resp.grid.maxCount = 2
    /\ resp.grid.aggregate[0][0] = 1
    /\ resp.grid.aggregate[0][1] = 2
    /\ resp.grid.aggregate[1][0] = 0
    /\ Len(events[req.id].participants) = 2

\* the page has loaded and rendered an event
PageLoaded == eventData # Null

\* the cells <<row, day>> of the loaded grid that somebody selected
PositiveCells ==
    {c \in (DOMAIN eventData.grid.aggregate) \X (0..(Len(eventData.dates) - 1)) :
        eventData.grid.aggregate[c[1]][c[2]] > 0}

\* the items of the best-times list that show a slot
ListedSlots == SelectSeq(bestSlots, LAMBDA li : li.kind = "slot")

\* the cells of those items
ListedCells == {<<ListedSlots[i].row, ListedSlots[i].day>> : i \in 1..Len(ListedSlots)}

(* C16: the best-times list holds only cells with count > 0, each with its  *)
(* count, in non-increasing order of count, and is cut at 5: it has         *)
(* min(5, number of positive cells) entries, and no positive cell left out  *)
(* has a higher count than a listed one.                                    *)
C16_BestTimesTopFive ==
    PageLoaded =>
        /\ ListedCells \subseteq PositiveCells
        /\ \A i \in 1..Len(ListedSlots) :
              ListedSlots[i].count
                  = eventData.grid.aggregate[ListedSlots[i].row][ListedSlots[i].day]
        /\ \A i \in 1..Len(ListedSlots) : \A j \in (i + 1)..Len(ListedSlots) :
              ListedSlots[i].count >= ListedSlots[j].count
        /\ Len(ListedSlots) = IF Cardinality(PositiveCells) < 5
                              THEN Cardinality(PositiveCells) ELSE 5
        /\ Cardinality(ListedCells) = Len(ListedSlots)
        /\ \A c \in PositiveCells \ ListedCells : \A i \in 1..Len(ListedSlots) :
              eventData.grid.aggregate[c[1]][c[2]] <= ListedSlots[i].count

\* six cells have counts, 1 in the first cell and more in the others: the
\* list shows the five others, those of 4 before those of 2
C16_Witness ==
    /\ PageLoaded
    /\ Cardinality(PositiveCells) = 6
    /\ Len(ListedSlots) = 5
    /\ eventData.grid.aggregate[0][0] = 1
    /\ <<0, 0>> \notin ListedCells
    /\ ListedSlots[1].count = 4
    /\ ListedSlots[5].count = 2

(* C17: two entries of the best-times list with the same count stand in    *)
(* day-major order: the one of the earlier day first, and of two of the     *)
(* same day the one of the earlier row.                                     *)
C17_TiesDayMajor ==
    PageLoaded =>
        \A i \in 1..Len(ListedSlots) : \A j \in (i + 1)..Len(ListedSlots) :
            ListedSlots[i].count = ListedSlots[j].count =>
                \/ ListedSlots[i].day < ListedSlots[j].day
                \/ /\ ListedSlots[i].day = ListedSlots[j].day
                   /\ ListedSlots[i].row < ListedSlots[j].row

\* row 0 of day 0 and row 1 of day 1 have count 1 each, row 2 of day 0 has
\* count 2: the list is the cell of count 2, then day 0, then day 1
C17_Witness ==
    /\ PageLoaded
    /\ Len(ListedSlots) = 3
    /\ ListedSlots[1].count = 2 /\ ListedSlots[1].day = 0 /\ ListedSlots[1].row = 2
    /\ ListedSlots[2].count = 1 /\ ListedSlots[2].day = 0 /\ ListedSlots[2].row = 0
    /\ ListedSlots[3].count = 1 /\ ListedSlots[3].day = 1 /\ ListedSlots[3].row = 1

\* the list shows the state "No availability submitted yet." and nothing else
NoAvailabilityShown ==
    /\ Len(bestSlots) = 1
    /\ bestSlots[1].kind = "message"
    /\ bestSlots[1].text = "No availability submitted yet."

(* C18: when the loaded event has no participant, or none with a slot, the  *)
(* ranking is empty and the list shows the state "No availability submitted *)
(* yet." instead of no item at all; when a cell has a count the list shows  *)
(* slots and not that state.                                                *)
C18_EmptyRankingHasItsState ==
    PageLoaded =>
        LET event == events[eventData.id] IN
        /\ (\A i \in 1..Len(event.participants) : event.participants[i].slots = {})
              => (ListedSlots = <<>> /\ NoAvailabilityShown)
        /\ PositiveCells # {}
              => (/\ ListedSlots # <<>>
                  /\ \A i \in 1..Len(bestSlots) : bestSlots[i].kind = "slot")

\* the event has a grid and one participant, who saved no slot: the list
\* shows the state
C18_Witness ==
    /\ PageLoaded
    /\ Len(events[eventData.id].participants) = 1
    /\ events[eventData.id].participants[1].slots = {}
    /\ DOMAIN cellsByIndex # {}
    /\ NoAvailabilityShown

\* the levels of the cells of the grid whose count is n
LevelsOfCount(n) ==
    {cellsByIndex[i].level : i \in {j \in DOMAIN cellsByIndex :
        eventData.grid.aggregate[cellsByIndex[j].row][cellsByIndex[j].day] = n}}

(* C19: every cell of a loaded grid has the heatmap level 0 when maxCount   *)
(* is 0 and ceil(4 * count / maxCount) otherwise, the least integer L with  *)
(* L * maxCount >= 4 * count; the level is one of 0..4, is 0 exactly when   *)
(* the count is 0, and is 4 when the count is a positive maxCount.          *)
C19_HeatLevel ==
    PageLoaded =>
        LET maxCount == eventData.grid.maxCount
            aggregate == eventData.grid.aggregate
        IN
        /\ Cardinality(DOMAIN cellsByIndex)
              = Cardinality(DOMAIN aggregate) * Len(eventData.dates)
        /\ \A i \in DOMAIN cellsByIndex :
            LET cell == cellsByIndex[i]
                count == aggregate[cell.row][cell.day]
            IN
            /\ cell.level \in 0..4
            /\ maxCount = 0 => cell.level = 0
            /\ maxCount # 0 =>
                  /\ cell.level * maxCount >= 4 * count
                  /\ cell.level > 0 => (cell.level - 1) * maxCount < 4 * count
            /\ cell.level = 0 <=> count = 0
            /\ (count = maxCount /\ maxCount > 0) => cell.level = 4

\* the counts 0, 1, 2, 3 and 4 are in one grid, with the levels 0, 1, 2, 3
\* and 4
C19_Witness ==
    /\ PageLoaded
    /\ eventData.grid.maxCount = 4
    /\ LevelsOfCount(0) = {0}
    /\ LevelsOfCount(1) = {1}
    /\ LevelsOfCount(2) = {2}
    /\ LevelsOfCount(3) = {3}
    /\ LevelsOfCount(4) = {4}

(* C20: for every day d and row r of a loaded grid of D days, the index    *)
(* d * slotsPerDay + r of the page lies in [0, D * slotsPerDay) and the     *)
(* server decodes it to the same row, index mod slotsPerDay, and the same   *)
(* day, floor(index / slotsPerDay); two cells never share an index.         *)
C20_EncodeDecodeInverse ==
    PageLoaded =>
        LET slotsPerDay == eventData.grid.slotsPerDay
            rows == RowsOf(eventData)
            days == Len(eventData.dates)
            cells == (0..(days - 1)) \X (0..(rows - 1))
        IN
        /\ \A c \in cells :
            LET idx == SlotIndex(c[1], c[2], rows) IN
            /\ 0 <= idx /\ idx < days * rows
            /\ RowOf(idx, slotsPerDay) = IntNum(c[2])
            /\ ColOf(idx, slotsPerDay) = IntNum(c[1])
            /\ idx \in DOMAIN cellsByIndex
            /\ cellsByIndex[idx].day = c[1] /\ cellsByIndex[idx].row = c[2]
        /\ \A c1 \in cells : \A c2 \in cells :
              SlotIndex(c1[1], c1[2], rows) = SlotIndex(c2[1], c2[2], rows) => c1 = c2

\* two days of three slots: the cell of index 5 is row 2 of day 1, and the
\* cell of index 2 is row 2 of day 0
C20_Witness ==
    /\ PageLoaded
    /\ eventData.grid.slotsPerDay = IntNum(3)
    /\ Len(eventData.dates) = 2
    /\ DOMAIN cellsByIndex = 0..5
    /\ cellsByIndex[5].row = 2 /\ cellsByIndex[5].day = 1
    /\ cellsByIndex[2].row = 2 /\ cellsByIndex[2].day = 0

\* the overlay ran last, with the events of the calendar, on a loaded page
OverlayApplied == ran = "loadCalendarOverlay" /\ overlayStatus = "Overlay applied"

\* the second at which the slot of a cell starts: its day's date at the
\* start of the window plus row slot lengths
CellStart(cell) ==
    eventData.dates[cell.day + 1] * 86400
        + (eventData.startTimeMinutes.v + cell.row * eventData.slotMinutes) * 60

\* the second at which it ends
CellEnd(cell) == CellStart(cell) + eventData.slotMinutes * 60

(* C21: after the overlay has been applied, a slot is marked busy if and    *)
(* only if slot.start < interval.end and slot.end > interval.start for some *)
(* busy interval of the calendar; an interval that only touches the slot at *)
(* an endpoint does not mark it, and a partial overlap does.                *)
C21_BusyIffStrictOverlap ==
    OverlayApplied =>
        \A idx \in DOMAIN cellsByIndex :
            LET cell == cellsByIndex[idx]
                items == calendarReply.items
                meets(i) == /\ CellStart(cell) < EventEnd(items[i])
                            /\ CellEnd(cell) > EventStart(items[i])
                touches(i) == \/ CellEnd(cell) = EventStart(items[i])
                              \/ CellStart(cell) = EventEnd(items[i])
            IN
            /\ cell.busy <=> idx \in calendarBusy
            /\ cell.busy <=> \E i \in 1..Len(items) : meets(i)
            /\ (\A i \in 1..Len(items) : touches(i)) /\ items # <<>> => ~cell.busy

\* the calendar has an event from 9:20 to 9:40 of the first day and one of
\* the whole second day: the slot 9:20-9:40 and the three slots of the
\* second day are busy, the slots 9:00-9:20 and 9:40-10:00, which touch the
\* event, are not
C21_Witness ==
    /\ OverlayApplied
    /\ Len(calendarReply.items) = 2
    /\ calendarReply.items[1] = Timed(Instant(1, 560), Instant(1, 580))
    /\ CellEnd(cellsByIndex[0]) = Instant(1, 560)
    /\ CellStart(cellsByIndex[2]) = Instant(1, 580)
    /\ calendarBusy = {1, 3, 4, 5}
    /\ ~cellsByIndex[0].busy /\ cellsByIndex[1].busy /\ ~cellsByIndex[2].busy

(* C22: loading the calendar overlay, with or without success, leaves the  *)
(* participant's selection as it was, in mySlots, in its stored copy and in *)
(* the cells shown as selected, and leaves the server's store as it was.    *)
C22_OverlayReadOnly ==
    [][ran' = "loadCalendarOverlay" =>
          /\ mySlots' = mySlots
          /\ localStorage' = localStorage
          /\ DOMAIN cellsByIndex' = DOMAIN cellsByIndex
          /\ \A idx \in DOMAIN cellsByIndex :
                cellsByIndex'[idx].mine = cellsByIndex[idx].mine
          /\ events' = events]_vars

\* the participant had selected and saved the slots 4 and 5 when the
\* overlay found the whole second day busy: they are busy and still selected
C22_Witness ==
    /\ OverlayApplied
    /\ mySlots = {4, 5}
    /\ localStorage = NumList(<<4, 5>>)
    /\ calendarBusy = {3, 4, 5}
    /\ cellsByIndex[4].mine /\ cellsByIndex[4].busy
    /\ \E i \in 1..Len(events[eventData.id].participants) :
          events[eventData.id].participants[i].slots = {IntNum(4), IntNum(5)}

\* the participant map of an event: its entries, each under its key
ParticipantMap(event) ==
    {event.participants[i] : i \in 1..Len(event.participants)}

\* the entry a successful save of body leaves in the event
EntrySavedBy(body, event) ==
    [key |-> ToLowerCase(Trim(body.participantName.s)),
     name |-> Trim(body.participantName.s),
     slots |-> IndicesInRange(body.slots.a, event)]

(* C23: from any state, two saves to one event under different keys give    *)
(* the same participant map in either order: the entry of each key holds    *)
(* the slots in range of its own save, the entries of other keys are those  *)
(* of before, and no other event changes.  (A handler runs from its first   *)
(* statement to its response without yielding, so the interleavings of      *)
(* saves are their orders.  Every store is the state after the create or    *)
(* the save that made it, so the states after those are the ones looked     *)
(* at.)                                                                     *)
C23_SavesCommute ==
    (resp.status = 200 /\ req.op # "getEvent") => \A id \in DOMAIN events :
        LET accepted == {b \in SaveBodies :
                            PostAvailability(events, id, b).res.status = 200}
        IN
        \A pair \in {p \in SUBSET accepted : Cardinality(p) = 2} :
            LET b1 == CHOOSE b \in pair : TRUE
                b2 == CHOOSE b \in pair : b # b1
                e1 == EntrySavedBy(b1, events[id])
                e2 == EntrySavedBy(b2, events[id])
                r12 == PostAvailability(PostAvailability(events, id, b1).events, id, b2)
                r21 == PostAvailability(PostAvailability(events, id, b2).events, id, b1)
            IN
            e1.key # e2.key =>
                /\ r12.res.status = 200 /\ r21.res.status = 200
                /\ ParticipantMap(r12.events[id]) = ParticipantMap(r21.events[id])
                /\ ParticipantMap(r12.events[id])
                      = {e \in ParticipantMap(events[id]) :
                            e.key \notin {e1.key, e2.key}} \cup {e1, e2}
                /\ Len(r12.events[id].participants) = Len(r21.events[id].participants)
                /\ Len(r12.events[id].participants)
                      = Cardinality(ParticipantMap(r12.events[id]))
                /\ \A other \in DOMAIN events \ {id} :
                      r12.events[other] = events[other] /\ r21.events[other] = events[other]

\* "A" saved, then "B", then "A" again with [2, 99]: the entry of "a" holds
\* its last save, the entry of "b" its own, and saving as "B" then as "A"
\* from here gives the map that saving as "A" then as "B" gives
C23_Witness ==
    /\ SaveSucceeded
    /\ req.body = [participantName |-> Str(<<"A">>), slots |-> NumList(<<2, 99>>)]
    /\ events[req.id].participants =
          << [key |-> <<"a">>, name |-> <<"A">>, slots |-> {IntNum(2)}],
             [key |-> <<"b">>, name |-> <<"B">>, slots |-> {IntNum(0), IntNum(2)}] >>
    /\ LET b == [participantName |-> Str(<<"B">>), slots |-> NumList(<<2, 99>>)]
           ab == PostAvailability(PostAvailability(events, req.id, req.body).events,
                                  req.id, b).events
           ba == PostAvailability(PostAvailability(events, req.id, b).events,
                                  req.id, req.body).events
       IN ParticipantMap(ab[req.id]) = ParticipantMap(ba[req.id])
          /\ ab # events

\* the indices of the cells of a read in which name is listed
CountedCells(grid, name) ==
    {d * grid.slotsPerDay.v + r : <<r, d>> \in
        {c \in UNION {{<<r, d>> : d \in DOMAIN grid.who[r]} : r \in DOMAIN grid.who} :
            name \in Range(grid.who[c[1]][c[2]])}}

\* the slot sets a save of this specification can store in the event
SavableSets(event) ==
    {ClampSlots(l.a, NumSub(NumMul(slotsPerDayOf(event), IntNum(Len(event.dates))),
                            IntNum(1))) : l \in WideSlotLists}

(* C24: a read counts every participant in the cells of one whole slot set  *)
(* that the participant saved, the one the store holds when the read is     *)
(* answered: never in a part of a set, never in cells of two sets.  (The    *)
(* read and the save each run without yielding, so a read comes before or   *)
(* after a save, never between two of its writes.)                          *)
C24_ReadSeesWholeSets ==
    ReadSucceeded =>
        \A i \in 1..Len(events[req.id].participants) :
            LET p == events[req.id].participants[i] IN
            /\ CountedCells(resp.grid, p.name) = {s.v : s \in p.slots}
            /\ p.slots \in SavableSets(events[req.id])

\* "A" saved [true, 7], which stored 1 and 7; the read lists "A" in the cells
\* 1 and 7 and in no other
C24_Witness ==
    /\ ReadSucceeded
    /\ Len(events[req.id].participants) = 1
    /\ events[req.id].participants[1].slots = {IntNum(1), IntNum(7)}
    /\ CountedCells(resp.grid, <<"A">>) = {1, 7}
    /\ resp.grid.who[1][0] = <<(<<"A">>)>>
    /\ resp.grid.who[3][1] = <<(<<"A">>)>>
    /\ resp.grid.aggregate[0][0] = 0

\* the fields of an event that its creation fixes
FixedFields(event) ==
    [id |-> event.id, dates |-> event.dates,
     startTimeMinutes |-> event.startTimeMinutes,
     endTimeMinutes |-> event.endTimeMinutes,
     slotMinutes |-> event.slotMinutes]

(* C25: no step removes an event or changes the id, the dates, the window   *)
(* or the slot length it was created with; a successful save to an event    *)
(* under a key changes the entry of that key alone, in that event alone.    *)
C25_EventsKeepTheirShape ==
    [][/\ \A id \in DOMAIN events :
            /\ id \in DOMAIN events'
            /\ FixedFields(events'[id]) = FixedFields(events[id])
       /\ (req'.op = "saveAvailability" /\ resp'.status = 200) =>
            /\ DOMAIN events' = DOMAIN events
            /\ \A id \in DOMAIN events \ {req'.id} : events'[id] = events[id]
            /\ {e \in ParticipantMap(events'[req'.id]) :
                    e.key # ToLowerCase(Trim(req'.body.participantName.s))}
                 = {e \in ParticipantMap(events[req'.id]) :
                    e.key # ToLowerCase(Trim(req'.body.participantName.s))}]_vars

\* the last handler run was a create that answered with an id
CreateSucceeded == req.op = "createEvent" /\ resp.status = 200

(* C26: the dates of an event that a create-event request has just stored   *)
(* are the days from startDate to endDate, each once, in order.             *)
C26_DatesAreTheDays ==
    CreateSucceeded =>
        LET first == req.body.startDate.d
            last == req.body.endDate.d
        IN events[resp.id].dates = [i \in 1..(last - first + 1) |-> first + i - 1]

\* the minutes of a time typed as "hh:mm"
MinutesOf(text) == parseTimeToMinutes(text).v

\* a range is typed whose end is after its start
RangeTyped ==
    /\ rangeFields.from # <<>> /\ rangeFields.to # <<>>
    /\ MinutesOf(rangeFields.from) < MinutesOf(rangeFields.to)

\* floor((minutes - startTimeMinutes) / slotMinutes) held within the rows
RowForMinutes(minutes) ==
    LET row == (minutes - eventData.startTimeMinutes.v) \div eventData.slotMinutes
        last == RowsOf(eventData) - 1
    IN IF row < 0 THEN 0 ELSE IF row > last THEN last ELSE row

(* C27: the page and the server use one encoding: the cell of day d and row *)
(* r is rendered under the index d * slotsPerDay + r, the time range of     *)
(* (d, r) is kept under that index, the range selector has selected that    *)
(* index for the rows of its day, and the read counts a participant in      *)
(* aggregate[r][d] exactly when the stored set holds that index.            *)
C27_OneEncoding ==
    PageLoaded =>
        LET rows == RowsOf(eventData)
            ranges == buildSlotRanges(eventData)
            event == events[eventData.id]
        IN
        /\ DOMAIN cellsByIndex = 0..(Len(eventData.dates) * rows - 1)
        /\ DOMAIN ranges = DOMAIN cellsByIndex
        /\ \A d \in 0..(Len(eventData.dates) - 1), r \in 0..(rows - 1) :
            LET i == d * rows + r IN
            /\ cellsByIndex[i].day = d /\ cellsByIndex[i].row = r
            /\ ranges[i].start =
                  Instant(eventData.dates[d + 1],
                          eventData.startTimeMinutes.v + r * eventData.slotMinutes)
            /\ (/\ ran = "rangeApply" /\ RangeTyped /\ d = rangeFields.day
                /\ RowForMinutes(MinutesOf(rangeFields.from)) <= r
                /\ r <= RowForMinutes(MinutesOf(rangeFields.to) - 1))
                  => (i \in mySlots /\ cellsByIndex[i].mine)
            /\ Range(eventData.grid.who[r][d])
                  = {event.participants[k].name : k \in
                        {j \in 1..Len(event.participants) :
                            IntNum(i) \in event.participants[j].slots}}
            /\ eventData.grid.aggregate[r][d] = Len(eventData.grid.who[r][d])

\* the rows 1 and 2 of day 1 were chosen with the range 09:20-10:00 and
\* saved as "A": they are the indices 4 and 5, the server counts "A" in
\* aggregate[1][1] and aggregate[2][1], and the range of index 4 starts at
\* 09:20 of the second date
C27_Witness ==
    /\ PageLoaded
    /\ ran = "saveAvailability"
    /\ RowsOf(eventData) = 3
    /\ mySlots = {4, 5}
    /\ cellsByIndex[4].day = 1 /\ cellsByIndex[4].row = 1 /\ cellsByIndex[4].mine
    /\ eventData.grid.who[1][1] = <<PageNames[1]>>
    /\ eventData.grid.who[2][1] = <<PageNames[1]>>
    /\ eventData.grid.aggregate[1][0] = 1
    /\ eventData.grid.aggregate[1][1] = 1
    /\ buildSlotRanges(eventData)[4].start = Instant(eventData.dates[2], 560)

(* C28: a click on rangeApply with from < to adds, on the chosen day, the   *)
(* rows from the row of `from` to the row of `to - 1`, a row being          *)
(* floor((minutes - startTimeMinutes) / slotMinutes) held within            *)
(* [0, slotsPerDay - 1]; it takes no slot away and adds none on another     *)
(* day; without from < to it changes nothing.                               *)
C28_RangeAddsRows ==
    [][ran' = "rangeApply" =>
          IF RangeTyped
          THEN /\ mySlots' = mySlots \cup
                    {rangeFields.day * RowsOf(eventData) + r : r \in
                        RowForMinutes(MinutesOf(rangeFields.from))
                            .. RowForMinutes(MinutesOf(rangeFields.to) - 1)}
               /\ localStorage' = StringifySlots(mySlots')
               /\ \A idx \in DOMAIN cellsByIndex :
                    cellsByIndex'[idx].mine = (idx \in mySlots')
          ELSE /\ mySlots' = mySlots
               /\ localStorage' = localStorage
               /\ cellsByIndex' = cellsByIndex]_vars

\* slot 4, of day 1, was selected when the range 09:10-09:30 was applied to
\* day 0: the rows 0 and 1 of day 0 were added and slot 4 was kept
C28_Witness ==
    /\ ran = "rangeApply"
    /\ rangeFields = [day |-> 0,
                      from |-> Clock(<<"0", "9">>, <<"1", "0">>),
                      to |-> Clock(<<"0", "9">>, <<"3", "0">>)]
    /\ mySlots = {0, 1, 4}
    /\ localStorage = NumList(<<0, 1, 4>>)
    /\ cellsByIndex[0].mine /\ cellsByIndex[1].mine /\ ~cellsByIndex[2].mine

\* the rows of the grid whose slot [rowStart, rowStart + slotMinutes) has a
\* minute in [from, to)
RowsMeeting(from, to) ==
    {r \in 0..(RowsOf(eventData) - 1) :
        LET rowStart == eventData.startTimeMinutes.v + r * eventData.slotMinutes IN
        rowStart < to /\ rowStart + eventData.slotMinutes > from}

(* C29: a click on rangeApply with from < to adds, on the chosen day,       *)
(* exactly the rows whose slot meets [from, to): the part of the range      *)
(* inside the window when it lies partly outside, no row when it lies       *)
(* outside altogether.                                                      *)
C29_RangeTruncated ==
    [][(ran' = "rangeApply" /\ RangeTyped) =>
          mySlots' = mySlots \cup
              {rangeFields.day * RowsOf(eventData) + r : r \in
                  RowsMeeting(MinutesOf(rangeFields.from), MinutesOf(rangeFields.to))}]_vars

(* C30: a read changes nothing in the store, its answer is a function of    *)
(* the store alone, and a read that follows a read of the same event, with  *)
(* no other request between them, answers as the first did: the same        *)
(* aggregate, who, maxCount, times and participants.                        *)
C30_ReadIsPure ==
    [][req'.op = "getEvent" =>
          /\ events' = events
          /\ resp' = GetEventResponse(events', req'.id)
          /\ (req.op = "getEvent" /\ req.id = req'.id) =>
                /\ resp'.status = resp.status
                /\ resp.status = 200 =>
                    /\ resp'.grid = resp.grid
                    /\ resp'.times = resp.times
                    /\ resp'.participants = resp.participants]_vars

\* a read has answered with two participants and a cell that both selected;
\* the store is as the read found it, and a second read answers the same
C30_Witness ==
    /\ ReadSucceeded
    /\ Len(resp.participants) = 2
    /\ resp.grid.maxCount = 2
    /\ DOMAIN resp.times = 0..1
    /\ Len(events[req.id].participants) = 2
    /\ GetEventResponse(events, req.id) = resp

\* the state of the promise of call c
StateOf(c) == IF c <= Len(promises) THEN promises[c] ELSE "none"

(* C31: every promise that getCalendarAccessToken returns is settled at     *)
(* last, resolved with a token or rejected, for the first call and for      *)
(* every later one, when Google answers every requestAccessToken.           *)
C31_EveryCallSettles ==
    \A c \in 1..MaxCalls : (StateOf(c) = "pending") ~> (StateOf(c) # "pending")

(* C32: when signOutAllGoogle has completed, the session of the browser     *)
(* holds no user: GET /api/me answers user null and GET /api/theme answers  *)
(* 401.                                                                     *)
C32_SignOutClearsSession ==
    ran = "signOutAllGoogle" =>
        /\ session.user = Undef
        /\ GetMe(session).user = Null
        /\ GetTheme(session, themes).status = 401

-----------------------------------------------------------------------------
(* Selecting by pointer *)

\* the indexes of the cells of the grid of SelectStore
DragCells == 0..5

\* C33: a press on a cell fixes the direction of the drag, "add" on a cell
\* that was not selected and "remove" on one that was, and sets the pressed
\* cell to it; while the pointer is down every cell it enters is set to the
\* state of that direction, so that the selection only grows in a drag that
\* adds and only shrinks in one that removes; the direction changes at no
\* step but a press, a release or a new page.
C33_DragHasOneDirection ==
    [][/\ \A idx \in DragCells : pointerdown(idx) =>
              /\ dragMode' = (IF idx \in mySlots THEN "remove" ELSE "add")
              /\ (idx \in mySlots') = (dragMode' = "add")
       /\ \A idx \in DragCells : (pointerenter(idx) /\ isDown) =>
              /\ (idx \in mySlots') = (dragMode = "add")
              /\ cellsByIndex'[idx].mine = (dragMode = "add")
              /\ mySlots' \ {idx} = mySlots \ {idx}
              /\ IF dragMode = "add" THEN mySlots \subseteq mySlots'
                                     ELSE mySlots' \subseteq mySlots
       /\ dragMode' # dragMode => ran' \in {"pointerdown", "pointerup", "reload"}
      ]_vars

\* a drag that removes has entered a cell and left nothing selected, in a
\* page that had more than one cell selected
C33_Witness ==
    /\ ran = "pointerenter"
    /\ isDown
    /\ dragMode = "remove"
    /\ mySlots = {}
    /\ \E idx \in DragCells : idx \in DOMAIN cellsByIndex

\* C34: the release of the pointer ends the drag: isDown is true exactly
\* when dragMode is not null, after a release both are cleared, and while
\* no pointer is down a pointer that enters a cell changes neither the
\* selection, nor the cells, nor the stored item.
C34_ReleaseEndsTheDrag ==
    [][/\ isDown' = (dragMode' # "null")
       /\ ran' = "pointerup" => (~isDown' /\ dragMode' = "null")
       /\ (ran' = "pointerenter" /\ ~isDown) =>
              UNCHANGED <<mySlots, cellsByIndex, localStorage, dragVars>>
       /\ isDown' # isDown => ran' \in {"pointerdown", "pointerup", "reload"}
      ]_vars

\* a pointer enters a cell of the grid after a drag has selected cells and
\* the pointer was released
C34_Witness ==
    /\ ran = "pointerenter"
    /\ ~isDown
    /\ dragMode = "null"
    /\ Cardinality(mySlots) >= 2

-----------------------------------------------------------------------------
(* The stored selection *)

\* the numbers of a stored array
StoredSlots(item) == {item.a[i].n : i \in 1..Len(item.a)}

\* C35: the item stored under the event's key mirrors the selection. After
\* every press, entered cell, range or Clear that changes mySlots the item
\* is an array that holds exactly the elements of mySlots, each once; in
\* every state a page opened on the item would read mySlots from it, so a
\* reload of the page leaves the selection as it was.
C35_StoredMirrorsSelection ==
    [][/\ (mySlots' # mySlots /\ ran' \in {"pointerdown", "pointerenter", "rangeApply",
                                          "clearMyAvailability"}) =>
              /\ localStorage'.t = "array"
              /\ StoredSlots(localStorage') = mySlots'
              /\ Len(localStorage'.a) = Cardinality(mySlots')
       /\ ParseSlots(localStorage') = mySlots'
       /\ ran' = "reload" => mySlots' = mySlots
      ]_vars

\* a page that was opened again holds a selection of several cells
C35_Witness ==
    /\ ran = "reload"
    /\ Cardinality(mySlots) >= 2
    /\ localStorage = StringifySlots(mySlots)

-----------------------------------------------------------------------------
(* The Clear button *)

\* C36: Clear is local. After it mySlots is empty, the stored item is the
\* empty array and no cell is marked as selected; the store of the server,
\* the event the page holds and the heat of every cell are as before, so
\* that what the participant has saved keeps counting: a read of the event
\* after the Clear answers the aggregate it answered before.
C36_ClearIsLocal ==
    [][ran' = "clearMyAvailability" =>
           /\ mySlots' = {}
           /\ localStorage' = NumList(<<>>)
           /\ \A idx \in DOMAIN cellsByIndex' : ~cellsByIndex'[idx].mine
           /\ UNCHANGED <<events, saved, eventData, bestSlots>>
           /\ DOMAIN cellsByIndex' = DOMAIN cellsByIndex
           /\ \A idx \in DOMAIN cellsByIndex :
                  cellsByIndex'[idx].level = cellsByIndex[idx].level
           /\ \A id \in Ids : GetEventResponse(events', id) = GetEventResponse(events, id)
      ]_vars

\* the selection was cleared while the server holds slots saved from this
\* page, and the grid still counts them
C36_Witness ==
    /\ ran = "clearMyAvailability"
    /\ mySlots = {}
    /\ eventData # Null
    /\ \E i \in 1..Len(events[1].participants) :
           /\ events[1].participants[i].key = <<"a">>
           /\ events[1].participants[i].slots # {}
    /\ \E idx \in DOMAIN cellsByIndex : cellsByIndex[idx].level > 0 /\ idx # 1

-----------------------------------------------------------------------------
(* Requests on their way *)

\* C37: once every save and load of the page has had its answer, the event
\* the page holds is the event the server would answer now.
C37_SettledPageShowsServer ==
    (calls = <<>> /\ eventData # Null) =>
        eventData = BodyOf(GetEventResponse(events, eventData.id))

-----------------------------------------------------------------------------
(* The overlay and the grid *)

\* C39: a cell of the grid carries the marking busy-calendar exactly when
\* its index is in calendarBusy, also after the grid was rendered again by a
\* load of the event. Before the first overlay calendarBusy is empty and no
\* cell is marked.
C39_CellsShowBusy ==
    \A idx \in DOMAIN cellsByIndex : cellsByIndex[idx].busy = (idx \in calendarBusy)

-----------------------------------------------------------------------------
(* Loads of the overlay that run together *)

\* C38: whatever loads of the overlay wait together, each answer is applied
\* whole. A load that met no token or an answer that is not ok leaves
\* calendarBusy and calendarEventsBySlot as they were; a load that met the
\* events of the calendar leaves as busy exactly the slots that its own
\* events overlap, each with exactly those of its events that overlap it;
\* in every state calendarBusy is the set of keys of calendarEventsBySlot.
C38_OverlayLoadsWhole ==
    [][/\ calendarBusy' = DOMAIN calendarEventsBySlot'
       /\ (ran' = "loadCalendarOverlay" /\ calendarReply'.kind # "ok") =>
              UNCHANGED <<calendarBusy, calendarEventsBySlot, cellsByIndex>>
       /\ (ran' = "loadCalendarOverlay" /\ calendarReply'.kind = "ok") =>
              LET ranges == buildSlotRanges(eventData)
                  items == calendarReply'.items
              IN /\ \A idx \in DOMAIN ranges :
                         (idx \in calendarBusy') =
                             (\E i \in 1..Len(items) : Overlaps(ranges[idx], items[i]))
                 /\ calendarBusy' \subseteq DOMAIN ranges
                 /\ \A idx \in calendarBusy' :
                         calendarEventsBySlot'[idx] =
                             SelectSeq(items, LAMBDA ev : Overlaps(ranges[idx], ev))
      ]_vars

\* an answer with the events of a calendar was applied over the busy slots
\* of an earlier answer while another load still waits
C38_Witness ==
    /\ ran = "loadCalendarOverlay"
    /\ calendarReply.kind = "ok"
    /\ loads >= 1
    /\ calendarBusy # {}
    /\ overlayStatus = "Overlay applied"

=============================================================================
